---- MODULE Spec2Model ----
(***************************************************************************)
(* Access control and resource state machines of the workhub backend:      *)
(* the protect / authorize middleware, the employee controller (profiles,  *)
(* status, documents), the appraisal submissions and the warning           *)
(* controller, each request handled one at a time.                         *)
(*                                                                         *)
(* A request is one action: protect, then the route's authorize, then the  *)
(* route's validateRequest, then the controller.  req.user.role.name and   *)
(* req.user.roles.includes(r) both read the role of the principal.         *)
(* Schema validation (enum, required, custom validators) is run where the  *)
(* code asks for it (save(), runValidators: true).  A reply is the HTTP    *)
(* status the error handler answers with; 0 stands for next().  Audit      *)
(* fields (updatedBy, createdAt, updatedAt) and free text other than notes *)
(* and reasons are not part of the state.                                  *)
(***************************************************************************)
EXTENDS Integers, Sequences, FiniteSets, TLC

\* ------------------------------------------------------------------ bounds
MaxClock == 2
MaxDocs == 2
MaxHistory == 2
MaxWarnings == 2
MaxDate == 3
MaxAppraisals == 3
MaxProjects == 1
MaxTeam == 2
MaxGoals == 2
MaxKpis == 1
MaxDocuments == 1
MaxShares == 2
MaxVersion == 4
MaxPending == 2

\* --------------------------------------------------------------- principals
UserIds == {1, 2, 3, 4, 5}
MissingId == 9
NoToken == 0
None == 0
NoDate == 0
NoStatus == "none"
NoText == "(absent)"
Tokens == UserIds \cup {MissingId, NoToken}

RoleNames == {"admin", "hr", "manager", "employee"}

RoleOf(u) ==
  CASE u = 1 -> "admin"
    [] u = 2 -> "hr"
    [] u = 3 -> "manager"
    [] OTHER -> "employee"

\* the manager back-reference of the stored User records
ManagerOf(u) ==
  CASE u = 4 -> 3
    [] u = 5 -> 2
    [] OTHER -> None

UserStatusEnum == {"active", "onboarding", "suspended", "terminated"}
DocStatusEnum == {"pending", "verified", "rejected"}

VARIABLES users, appraisals, warnings, projects, documents, pending, data, clock, resp

vars == <<users, appraisals, warnings, projects, documents, pending, data, clock, resp>>

\* the document store, the requests in flight and the payload of the last
\* response, which the requests on the other stores leave alone
docVars == <<documents, pending, data>>

\* ------------------------------------------------------------- middleware
Reply(code, us) == [code |-> code, users |-> us]

\* fault: protect without the check of the account status
protectAnyStatus(us, tok, now) ==
  IF tok = NoToken THEN Reply(401, us)
  ELSE IF tok \notin DOMAIN us THEN Reply(404, us)
  ELSE Reply(0, [us EXCEPT ![tok].lastLogin = now])

\* protect with the outcome of req.user.save as an input: the save is inside
\* the try block, whose catch answers 401
protectSave(us, tok, now, saved) ==
  IF tok = NoToken THEN Reply(401, us)
  ELSE IF tok \notin DOMAIN us THEN Reply(404, us)
  ELSE IF us[tok].status = "suspended" THEN Reply(401, us)
  ELSE IF us[tok].status = "terminated" THEN Reply(401, us)
  ELSE IF ~saved THEN Reply(401, us)
  ELSE Reply(0, [us EXCEPT ![tok].lastLogin = now])

\* protect when the store accepts the save
protect(us, tok, now) == protectSave(us, tok, now, TRUE)

authorize(us, uid, roles) ==
  IF uid \notin DOMAIN us THEN 404
  ELSE IF us[uid].role \notin roles THEN 403
  ELSE 0

\* protect, then authorize(roles): code 0 means the controller runs
Guarded(us, tok, roles, now) ==
  LET a == protect(us, tok, now)
  IN IF a.code # 0 THEN a
     ELSE Reply(authorize(a.users, tok, roles), a.users)

\* ------------------------------------------------------ employee controller
\* the access test shared by getEmployee and updateEmployee
NotOwnerOrElevated(us, uid, id) ==
  /\ id # uid
  /\ us[uid].role # "admin"
  /\ us[uid].role # "hr"
  /\ us[uid].role = "manager" /\ us[id].manager # None /\ us[id].manager # uid

getEmployee(us, uid, id) ==
  IF id \notin DOMAIN us THEN Reply(404, us)
  ELSE IF NotOwnerOrElevated(us, uid, id) THEN Reply(401, us)
  ELSE Reply(200, us)

getTeamMembers(us, uid) ==
  IF us[uid].role # "manager" THEN Reply(403, us)
  ELSE Reply(200, us)

StatusAllowed == {"active", "on_leave", "inactive", "terminated"}
StatusInputs == StatusAllowed \cup {"onboarding", "suspended"}

HistoryEntry(status, effectiveDate, reason, uid, now) ==
  [status |-> status,
   effectiveDate |-> IF effectiveDate # NoDate THEN effectiveDate ELSE now,
   reason |-> reason,
   changedBy |-> uid]

updateEmployeeStatus(us, uid, id, status, effectiveDate, reason, now) ==
  IF status \notin StatusAllowed THEN Reply(400, us)
  ELSE IF status \notin UserStatusEnum THEN Reply(400, us)
  ELSE IF id \notin DOMAIN us THEN Reply(404, us)
  ELSE Reply(200,
         [us EXCEPT ![id].status = status,
                    ![id].statusHistory =
                       Append(@, HistoryEntry(status, effectiveDate, reason, uid, now))])

\* req.body of updateEmployee: status is NoStatus when the body carries none
updateEmployee(us, uid, id, status) ==
  IF id \notin DOMAIN us THEN Reply(404, us)
  ELSE IF NotOwnerOrElevated(us, uid, id) THEN Reply(401, us)
  ELSE IF status = "terminated" /\ us[uid].role # "admin" /\ us[uid].role # "hr"
       THEN Reply(403, us)
  ELSE IF status = NoStatus THEN Reply(200, us)
  ELSE IF status \notin UserStatusEnum THEN Reply(400, us)
  ELSE Reply(200, [us EXCEPT ![id].status = status])

\* ---------------------------------------------------------------- documents
AllDocs(us) == UNION {{<<u, i>> : i \in 1..Len(us[u].documents)} : u \in DOMAIN us}
DocCount(us) == Cardinality(AllDocs(us))

\* the first user holding a document with this _id, None when there is none
DocOwner(us, docId) ==
  LET owners == {u \in DOMAIN us :
                   \E i \in 1..Len(us[u].documents) : us[u].documents[i].id = docId}
  IN IF owners = {} THEN None ELSE CHOOSE u \in owners : \A v \in owners : u <= v

DocIndex(us, u, docId) ==
  CHOOSE i \in 1..Len(us[u].documents) : us[u].documents[i].id = docId

\* the push of the stream's 'finish' callback is taken with the request
uploadDocument(us, uid, id) ==
  IF id \notin DOMAIN us THEN Reply(200, us)
  ELSE Reply(200,
         [us EXCEPT ![id].documents =
            Append(@, [id |-> DocCount(us) + 1, status |-> "pending",
                       verifiedBy |-> None, verifiedAt |-> NoDate,
                       rejectionReason |-> ""])])

allVerified(docs) == \A i \in 1..Len(docs) : docs[i].status = "verified"

\* fault: activation as soon as the document at hand is verified
verifyDocumentThisOnly(us, uid, docId, status, rejectionReason, now) ==
  IF status \notin {"verified", "rejected"} THEN Reply(400, us)
  ELSE IF status = "rejected" /\ rejectionReason = "" THEN Reply(400, us)
  ELSE IF DocOwner(us, docId) = None THEN Reply(404, us)
  ELSE
    LET e == DocOwner(us, docId)
        i == DocIndex(us, e, docId)
        updated == [us EXCEPT ![e].documents[i] =
                      [@ EXCEPT !.status = status,
                                !.verifiedBy = uid,
                                !.verifiedAt = now,
                                !.rejectionReason =
                                   IF status = "rejected" THEN rejectionReason ELSE @]]
    IN IF status = "verified" /\ updated[e].status = "onboarding"
       THEN Reply(200, [updated EXCEPT ![e].status = "active"])
       ELSE Reply(200, updated)

verifyDocument(us, uid, docId, status, rejectionReason, now) ==
  IF status \notin {"verified", "rejected"} THEN Reply(400, us)
  ELSE IF status = "rejected" /\ rejectionReason = "" THEN Reply(400, us)
  ELSE IF DocOwner(us, docId) = None THEN Reply(404, us)
  ELSE
    LET e == DocOwner(us, docId)
        i == DocIndex(us, e, docId)
        updated == [us EXCEPT ![e].documents[i] =
                      [@ EXCEPT !.status = status,
                                !.verifiedBy = uid,
                                !.verifiedAt = now,
                                !.rejectionReason =
                                   IF status = "rejected" THEN rejectionReason ELSE @]]
    IN IF allVerified(updated[e].documents) /\ updated[e].status = "onboarding"
       THEN Reply(200, [updated EXCEPT ![e].status = "active"])
       ELSE Reply(200, updated)

\* ------------------------------------------------------ appraisal controller
AppraisalStatusEnum == {"draft", "in_progress", "needs_review", "completed", "cancelled"}

Answer(code, st) == [code |-> code, store |-> st]

\* A date is a count of half days: an even number is the local midnight that
\* starts a day, the odd number after it a later hour of the same day.
\* new Date(d).setHours(0, 0, 0, 0)
startOfDay(d) == (d \div 2) * 2

\* an appraisal as createAppraisal stores it
NewAppraisal(employee, reviewer, appraisalDate) ==
  [employee |-> employee, reviewer |-> reviewer, appraisalDate |-> appraisalDate,
   status |-> "draft",
   selfAssessment |-> "", goals |-> <<>>, review |-> "", rating |-> 0,
   selfAssessmentDate |-> NoDate, reviewDate |-> NoDate, completedAt |-> NoDate]

createAppraisal(as, us, uid, employee, reviewer, appraisalDate) ==
  IF employee \notin DOMAIN us \/ us[employee].status # "active" THEN Answer(404, as)
  ELSE IF \/ reviewer \notin DOMAIN us
          \/ us[reviewer].status # "active"
          \/ us[reviewer].role \notin {"admin", "hr", "manager"}
       THEN Answer(404, as)
  ELSE IF \E i \in DOMAIN as :
             /\ as[i].employee = employee
             /\ as[i].appraisalDate = startOfDay(appraisalDate)
             /\ as[i].status # "cancelled"
       THEN Answer(400, as)
  ELSE Answer(201, Append(as, NewAppraisal(employee, reviewer, appraisalDate)))

\* req.body of updateAppraisal: NoStatus, NoText, NoDate and given = FALSE
\* for the keys the body does not carry
Body(status, review, selfAssessment, goals, appraisalDate) ==
  [status |-> status, review |-> review, selfAssessment |-> selfAssessment,
   goals |-> goals, appraisalDate |-> appraisalDate]

NoGoals == [given |-> FALSE, list |-> <<>>]

updateAppraisal(as, us, uid, id, body, now) ==
  IF id \notin DOMAIN as THEN Answer(404, as)
  ELSE
    LET isAdminOrHR == us[uid].role = "admin" \/ us[uid].role = "hr"
        isReviewer == as[id].reviewer = uid
        isEmployee == as[id].employee = uid
        b == IF isAdminOrHR THEN body
             ELSE IF isReviewer
                  THEN Body(body.status, body.review, NoText, NoGoals, NoDate)
             ELSE Body(NoStatus, NoText, body.selfAssessment, body.goals, NoDate)
        completedAt == IF b.status = "completed" THEN now ELSE as[id].completedAt
    IN IF ~isAdminOrHR /\ ~isReviewer /\ ~isEmployee THEN Answer(403, as)
       ELSE IF b.status = "completed"
               /\ (as[id].selfAssessment = "" \/ as[id].review = "" \/ Len(as[id].goals) = 0)
            THEN Answer(400, as)
       ELSE IF b.status # NoStatus /\ b.status \notin AppraisalStatusEnum
            THEN Answer(400, as)
       ELSE Answer(200,
              [as EXCEPT ![id].status = IF b.status # NoStatus THEN b.status ELSE @,
                         ![id].review = IF b.review # NoText THEN b.review ELSE @,
                         ![id].selfAssessment =
                            IF b.selfAssessment # NoText THEN b.selfAssessment ELSE @,
                         ![id].goals = IF b.goals.given THEN b.goals.list ELSE @,
                         ![id].appraisalDate =
                            IF b.appraisalDate # NoDate THEN b.appraisalDate ELSE @,
                         ![id].completedAt = completedAt])

\* goals of a request body: given is FALSE when the body carries none
submitSelfAssessment(as, uid, id, selfAssessment, goals, now) ==
  IF selfAssessment = "" THEN Answer(400, as)
  ELSE IF id \notin DOMAIN as THEN Answer(404, as)
  ELSE IF as[id].employee # uid THEN Answer(403, as)
  ELSE IF as[id].status \notin {"draft", "in_progress"} THEN Answer(400, as)
  ELSE Answer(200,
         [as EXCEPT ![id].selfAssessment = selfAssessment,
                    ![id].goals = IF goals.given THEN goals.list ELSE <<>>,
                    ![id].status = "in_progress",
                    ![id].selfAssessmentDate = now])

\* fault: submitReview without the test of the appraisal's status
submitReviewAnyStatus(as, uid, id, review, rating, status, goals, now) ==
  IF review = "" THEN Answer(400, as)
  ELSE IF rating = 0 \/ rating < 1 \/ rating > 5 THEN Answer(400, as)
  ELSE IF id \notin DOMAIN as THEN Answer(404, as)
  ELSE IF as[id].reviewer # uid THEN Answer(403, as)
  ELSE
    LET st == IF status # NoStatus THEN status ELSE "completed"
    IN IF st \notin AppraisalStatusEnum THEN Answer(400, as)
       ELSE Answer(200,
              [as EXCEPT ![id].review = review,
                         ![id].rating = rating,
                         ![id].status = st,
                         ![id].reviewDate = now,
                         ![id].goals = IF goals.given THEN goals.list ELSE @,
                         ![id].completedAt = IF st = "completed" THEN now ELSE @])

submitReview(as, uid, id, review, rating, status, goals, now) ==
  IF review = "" THEN Answer(400, as)
  ELSE IF rating = 0 \/ rating < 1 \/ rating > 5 THEN Answer(400, as)
  ELSE IF id \notin DOMAIN as THEN Answer(404, as)
  ELSE IF as[id].reviewer # uid THEN Answer(403, as)
  ELSE IF as[id].status \notin {"in_progress", "needs_review"} THEN Answer(400, as)
  ELSE
    LET st == IF status # NoStatus THEN status ELSE "completed"
    IN IF st \notin AppraisalStatusEnum THEN Answer(400, as)
       ELSE Answer(200,
              [as EXCEPT ![id].review = review,
                         ![id].rating = rating,
                         ![id].status = st,
                         ![id].reviewDate = now,
                         ![id].goals = IF goals.given THEN goals.list ELSE @,
                         ![id].completedAt = IF st = "completed" THEN now ELSE @])

\* ------------------------------------------------------ appraisal stats
\* the department of a principal's user record
DepartmentOf(u) == IF u \in {2, 5} THEN "ops" ELSE "eng"

\* User.find({manager: req.user._id, status: 'active'}): the caller's team
teamMemberIds(us, uid) == {u \in DOMAIN us : us[u].manager = uid /\ us[u].status = "active"}

\* the $match stage: every appraisal, or for a manager those of the team
Matched(as, us, uid) ==
  {i \in DOMAIN as : RoleOf(uid) = "manager" => as[i].employee \in teamMemberIds(us, uid)}

\* $max of the ratings of a group
HighestRating(as, S) ==
  IF S = {} THEN 0 ELSE CHOOSE r \in {as[i].rating : i \in S} : \A j \in S : as[j].rating <= r

\* $group of the positions S by key, the group key of each position: one
\* row (key, count, maxRating) per key
GroupBy(as, S, key) ==
  {[id |-> k, count |-> Cardinality({i \in S : key[i] = k}),
    maxRating |-> HighestRating(as, {i \in S : key[i] = k})] : k \in {key[i] : i \in S}}

\* the rows of a find(): what is returned of each appraisal, as a bag
Rows(as, S) ==
  LET RowOf(i) == [employee |-> as[i].employee, status |-> as[i].status, dueDate |-> as[i].dueDate]
  IN [r \in {RowOf(i) : i \in S} |-> Cardinality({i \in S : RowOf(i) = r})]

\* getAppraisalStats: byStatus, overdue and upcoming are taken over the
\* matched appraisals; the byDepartment pipeline has no $match stage
getAppraisalStats(as, us, uid, now) ==
  LET m == Matched(as, us, uid)
      StatusKey == [i \in DOMAIN as |-> as[i].status]
      DepartmentKey == [i \in DOMAIN as |-> DepartmentOf(as[i].employee)]
      open == {i \in m : as[i].status \notin {"completed", "cancelled"}}
  IN [byStatus |-> GroupBy(as, m, StatusKey),
      byDepartment |-> GroupBy(as, DOMAIN as, DepartmentKey),
      overdue |-> Rows(as, {i \in open : as[i].dueDate < now}),
      upcoming |-> Rows(as, {i \in open : as[i].dueDate >= now /\ as[i].dueDate <= now + 30})]

\* ------------------------------------------------------- overall rating
\* Ratings are counted in hundredths, the unit toFixed(2) rounds to.
\* A rating, a weightage or an actual of 0 stands for a value the test
\* (goal.rating && goal.weightage, kpi.actual && kpi.target) takes as absent.
NoRating == -1

\* the goals that enter the sum: goal.rating && goal.weightage
RatedGoals(goals) == {i \in DOMAIN goals : goals[i].rating # 0 /\ goals[i].weightage # 0}

\* the KPIs that enter the sum: kpi.actual && kpi.target
RatedKpis(kpis) == {i \in DOMAIN kpis : kpis[i].actual # 0 /\ kpis[i].target # 0}

\* 100 * sum of goal.rating * (goal.weightage / 100) over the rated goals
GoalSum(goals) ==
  LET RECURSIVE Sum(_)
      Sum(S) == IF S = {} THEN 0
                ELSE LET i == CHOOSE j \in S : TRUE
                     IN goals[i].rating * goals[i].weightage + Sum(S \ {i})
  IN Sum(RatedGoals(goals))

\* totalWeight: the weightages of the rated goals
TotalWeight(goals) ==
  LET RECURSIVE Sum(_)
      Sum(S) == IF S = {} THEN 0
                ELSE LET i == CHOOSE j \in S : TRUE
                     IN goals[i].weightage + Sum(S \ {i})
  IN Sum(RatedGoals(goals))

\* the sum of Math.min((actual / target) * 5, 5) over the rated KPIs, as a
\* fraction num / den; targets are positive
KpiSum(kpis) ==
  LET RECURSIVE Sum(_)
      Sum(S) == IF S = {} THEN [num |-> 0, den |-> 1]
                ELSE LET i == CHOOSE j \in S : TRUE
                         r == Sum(S \ {i})
                         a == IF 5 * kpis[i].actual < 5 * kpis[i].target
                              THEN 5 * kpis[i].actual ELSE 5 * kpis[i].target
                     IN [num |-> a * r.den + r.num * kpis[i].target,
                         den |-> r.den * kpis[i].target]
  IN Sum(RatedKpis(kpis))

\* weightedSum in hundredths, as a fraction: the goals, and the KPIs when
\* totalWeight < 100 and there is a KPI, each with kpiWeight =
\* remainingWeight / kpis.length
WeightedSum(doc) ==
  IF TotalWeight(doc.goals) < 100 /\ Len(doc.kpis) > 0
  THEN LET k == KpiSum(doc.kpis)
           remainingWeight == 100 - TotalWeight(doc.goals)
       IN [num |-> GoalSum(doc.goals) * k.den * Len(doc.kpis) + k.num * remainingWeight,
           den |-> k.den * Len(doc.kpis)]
  ELSE [num |-> GoalSum(doc.goals), den |-> 1]

\* parseFloat(x.toFixed(2)) of a positive fraction of hundredths
toFixed2(f) == (2 * f.num + f.den) \div (2 * f.den)

\* appraisalSchema.methods.calculateOverallRating
calculateOverallRating(doc) ==
  IF doc.rating # 0 THEN 100 * doc.rating
  ELSE IF WeightedSum(doc).num > 0 THEN toFixed2(WeightedSum(doc))
  ELSE NoRating

\* -------------------------------------------------------- warning controller
\* Employee records a warning refers to, and the manager of each
EmployeeIds == {1, 2}
EmployeeManagerOf(e) == IF e = 1 THEN 3 ELSE 2

WarningStatusEnum == {"active", "resolved", "escalated", "withdrawn"}

\* warningSchema: the defaults of a new document
NewWarning(employeeId, uid, dateIssued, validUntil, now) ==
  [employee |-> employeeId,
   createdBy |-> uid,
   status |-> "active",
   dateIssued |-> IF dateIssued # NoDate THEN dateIssued ELSE now,
   validUntil |-> validUntil,
   resolvedAt |-> NoDate,
   resolutionNotes |-> "",
   escalated |-> FALSE,
   escalationDate |-> NoDate,
   escalationNotes |-> "",
   isDeleted |-> FALSE,
   deletedAt |-> NoDate]

\* fault: a validator that admits validUntil equal to dateIssued
validUntilNotBefore(w) == w.validUntil >= w.dateIssued

\* the validator of warningSchema.validUntil, on the document being saved
validUntilValidator(w) == w.validUntil > w.dateIssued

\* the validation save() runs before it stores the document
WarningValid(w) ==
  /\ w.status \in WarningStatusEnum
  /\ w.dateIssued # NoDate
  /\ w.validUntil # NoDate
  /\ validUntilValidator(w)

\* warningSchema.pre('save'): old is the stored document, w the one being saved
preSave(old, w, now) ==
  LET a == IF old.status # w.status /\ w.status = "resolved" /\ w.resolvedAt = NoDate
           THEN [w EXCEPT !.resolvedAt = now] ELSE w
  IN IF old.escalated # a.escalated /\ a.escalated /\ a.escalationDate = NoDate
     THEN [a EXCEPT !.escalationDate = now] ELSE a

\* warning.save() of a stored document: 0 when it is stored
save(ws, id, w, now) ==
  IF ~WarningValid(w) THEN Answer(400, ws)
  ELSE Answer(0, [ws EXCEPT ![id] = preSave(ws[id], w, now)])

createWarning(ws, uid, employeeId, dateIssued, validUntil, now) ==
  IF employeeId \notin EmployeeIds THEN Answer(404, ws)
  ELSE
    LET w == NewWarning(employeeId, uid, dateIssued, validUntil, now)
    IN IF ~WarningValid(w) THEN Answer(400, ws)
       ELSE Answer(201, Append(ws, w))

\* the permission test of updateWarning and resolveWarning
MayChange(us, uid, w) ==
  \/ us[uid].role = "admin"
  \/ us[uid].role = "hr"
  \/ us[uid].role = "manager" /\ w.createdBy = uid

\* req.body of updateWarning: NoDate, NoStatus for a key the body does not carry
ApplyUpdates(w, dateIssued, validUntil, status) ==
  [w EXCEPT !.dateIssued = IF dateIssued # NoDate THEN dateIssued ELSE @,
            !.validUntil = IF validUntil # NoDate THEN validUntil ELSE @,
            !.status = IF status # NoStatus THEN status ELSE @]

\* NotFoundError, ForbiddenError and BadRequestError are not bound in the
\* controller's module: the throw raises a ReferenceError, which the catch
\* passes to next(error) and the error handler answers with 500
updateWarning(ws, us, uid, id, dateIssued, validUntil, status, now) ==
  IF id \notin DOMAIN ws THEN Answer(500, ws)
  ELSE IF ~MayChange(us, uid, ws[id]) THEN Answer(500, ws)
  ELSE
    LET s == save(ws, id, ApplyUpdates(ws[id], dateIssued, validUntil, status), now)
    IN IF s.code # 0 THEN s ELSE Answer(200, s.store)

resolveWarning(ws, us, uid, id, notes, now) ==
  IF id \notin DOMAIN ws THEN Answer(500, ws)
  ELSE IF ~MayChange(us, uid, ws[id]) THEN Answer(500, ws)
  ELSE
    LET w == [ws[id] EXCEPT !.status = "resolved",
                            !.resolvedAt = now,
                            !.resolutionNotes = notes]
        s == save(ws, id, w, now)
    IN IF s.code # 0 THEN s ELSE Answer(200, s.store)

\* after the save the notification reads User, which the module does not
\* import: the request is answered with 500 although the warning is stored
escalateWarning(ws, uid, id, notes, now) ==
  IF id \notin DOMAIN ws THEN Answer(500, ws)
  ELSE IF ws[id].escalated THEN Answer(500, ws)
  ELSE
    LET w == [ws[id] EXCEPT !.escalated = TRUE,
                            !.escalationDate = now,
                            !.escalationNotes = notes]
        s == save(ws, id, w, now)
    IN IF s.code # 0 THEN s ELSE Answer(500, s.store)

\* the fields withdrawWarning assigns besides status (withdrawnAt, withdrawnBy,
\* withdrawalReason) are no paths of warningSchema and are not stored
withdrawWarning(ws, uid, id, reason, now) ==
  IF id \notin DOMAIN ws THEN Answer(500, ws)
  ELSE
    LET s == save(ws, id, [ws[id] EXCEPT !.status = "withdrawn"], now)
    IN IF s.code # 0 THEN s ELSE Answer(200, s.store)

\* getWarning: findById, which the pre('find') hook does not filter; admin
\* and hr are admitted; for a manager the test reads employee.manager of an
\* employee populated without that field
getWarning(ws, us, uid, id) ==
  IF id \notin DOMAIN ws THEN 404
  ELSE IF us[uid].role \in {"admin", "hr"} THEN 200
  ELSE IF us[uid].role = "manager" THEN 500
  ELSE 403

\* deleteWarning: the soft delete
deleteWarning(ws, uid, id, now) ==
  IF id \notin DOMAIN ws THEN Answer(500, ws)
  ELSE
    LET w == [ws[id] EXCEPT !.isDeleted = TRUE, !.deletedAt = now]
        s == save(ws, id, w, now)
    IN IF s.code # 0 THEN s ELSE Answer(200, s.store)

\* ------------------------------------------------------------ project model
\* the enum of team.role
TeamRoleEnum == {"developer", "designer", "tester", "analyst", "other"}

NoAllocation == -1

\* a team entry as the schema stores it: isActive defaults to true and no
\* endDate is set
TeamEntry(user, role, allocation, startDate) ==
  [user |-> user, role |-> role, allocation |-> allocation,
   startDate |-> startDate, endDate |-> NoDate, isActive |-> TRUE]

\* the validators of the team paths: role required and in the enum,
\* allocation within min 0 and max 100 and accepted by v > 0 && v <= 100
TeamValid(team) ==
  \A i \in DOMAIN team :
    /\ team[i].role \in TeamRoleEnum
    /\ team[i].allocation >= 0 /\ team[i].allocation <= 100
    /\ team[i].allocation > 0 /\ team[i].allocation <= 100

\* doc.save(): code 0 when the document is stored, 400 for a ValidationError,
\* after which nothing of doc is stored
saveProject(doc) ==
  IF TeamValid(doc.team) THEN [code |-> 0, doc |-> doc]
  ELSE [code |-> 400, doc |-> doc]

isTeamMember(doc, userId) ==
  \E i \in DOMAIN doc.team : doc.team[i].user = userId /\ doc.team[i].isActive

\* this.team.find(member => member.user === userId): the index of the first
\* entry of the user, 0 if there is none
FirstEntryOf(team, userId) ==
  IF \E i \in DOMAIN team : team[i].user = userId
  THEN CHOOSE i \in DOMAIN team :
         /\ team[i].user = userId
         /\ \A j \in 1..(i - 1) : team[j].user # userId
  ELSE 0

\* this.team.findIndex(member => member.user === userId && member.isActive):
\* the index of the first active entry of the user, 0 if there is none
FirstActiveEntryOf(team, userId) ==
  IF \E i \in DOMAIN team : team[i].user = userId /\ team[i].isActive
  THEN CHOOSE i \in DOMAIN team :
         /\ team[i].user = userId /\ team[i].isActive
         /\ \A j \in 1..(i - 1) : ~(team[j].user = userId /\ team[j].isActive)
  ELSE 0

\* fault: addTeamMember that never looks for an entry of the user
methods_addTeamMemberAlwaysPush(doc, userId, role, allocation, now) ==
  saveProject([doc EXCEPT !.team = Append(@, TeamEntry(userId, role, allocation, now))])

\* projectSchema.methods.addTeamMember
methods_addTeamMember(doc, userId, role, allocation, now) ==
  LET i == FirstEntryOf(doc.team, userId)
  IN IF i # 0
     THEN IF doc.team[i].isActive THEN [code |-> 400, doc |-> doc]
          ELSE saveProject([doc EXCEPT !.team[i] =
                 [@ EXCEPT !.isActive = TRUE, !.startDate = now,
                           !.role = role, !.allocation = allocation]])
     ELSE saveProject([doc EXCEPT !.team =
                 Append(@, TeamEntry(userId, role, allocation, now))])

\* projectSchema.methods.removeTeamMember
methods_removeTeamMember(doc, userId, now) ==
  LET i == FirstActiveEntryOf(doc.team, userId)
  IN IF i = 0 THEN [code |-> 400, doc |-> doc]
     ELSE saveProject([doc EXCEPT !.team[i] =
                 [@ EXCEPT !.isActive = FALSE, !.endDate = now]])

\* ------------------------------------------------------- project controller
\* User.findOne({ _id, status: 'active' }) finds a user
findActiveUser(us, userId) == userId \in DOMAIN us /\ us[userId].status = "active"

\* Project.create(req.body): the entries of body.team get the defaults of
\* the schema
NewProject(manager, team, uid) == [manager |-> manager, team |-> team, updatedBy |-> uid]

\* the project is created before the manager is added to the team with the
\* role 'manager', which the enum of team.role does not hold: the save of
\* addTeamMember is refused, or the method throws when body.team has an
\* active entry of the manager, and the created project stays stored
createProject(ps, us, uid, manager, team, now) ==
  IF ~findActiveUser(us, manager) THEN Answer(404, ps)
  ELSE
    LET c == saveProject(NewProject(manager, team, uid))
    IN IF c.code # 0 THEN Answer(c.code, ps)
       ELSE LET a == methods_addTeamMember(c.doc, manager, "manager", 100, now)
            IN IF a.code # 0 THEN Answer(a.code, Append(ps, c.doc))
               ELSE Answer(201, Append(ps, a.doc))

\* removeTeamMember of the old manager saves the document with the new
\* manager and updatedBy; a refused addTeamMember of the new manager leaves
\* what that save stored
assignManager(ps, us, uid, id, managerId, now) ==
  IF managerId = None THEN Answer(400, ps)
  ELSE IF id \notin DOMAIN ps THEN Answer(404, ps)
  ELSE IF us[uid].role # "admin" /\ ps[id].manager # uid THEN Answer(403, ps)
  ELSE IF ~findActiveUser(us, managerId) THEN Answer(404, ps)
  ELSE
    LET oldManagerId == ps[id].manager
        p == [ps[id] EXCEPT !.manager = managerId, !.updatedBy = uid]
        isOldManagerInTeam == isTeamMember(p, oldManagerId)
        r == IF isOldManagerInTeam THEN methods_removeTeamMember(p, oldManagerId, now)
             ELSE [code |-> 0, doc |-> p]
        stored == IF isOldManagerInTeam /\ r.code = 0 THEN r.doc ELSE ps[id]
    IN IF r.code # 0 THEN Answer(r.code, ps)
       ELSE
         LET a == IF ~isTeamMember(r.doc, managerId)
                  THEN methods_addTeamMember(r.doc, managerId, "manager", 100, now)
                  ELSE [code |-> 0, doc |-> r.doc]
         IN IF a.code # 0 THEN Answer(a.code, [ps EXCEPT ![id] = stored])
            ELSE LET s == saveProject(a.doc)
                 IN IF s.code # 0 THEN Answer(s.code, [ps EXCEPT ![id] = stored])
                    ELSE Answer(200, [ps EXCEPT ![id] = s.doc])

\* const { userId, role = 'developer', allocation = 100 } = req.body
DefaultRole(role) == IF role = NoStatus THEN "developer" ELSE role

DefaultAllocation(allocation) == IF allocation = NoAllocation THEN 100 ELSE allocation

addTeamMember(ps, us, uid, id, userId, role, allocation, now) ==
  IF userId = None THEN Answer(400, ps)
  ELSE IF id \notin DOMAIN ps THEN Answer(404, ps)
  ELSE IF us[uid].role # "admin" /\ ps[id].manager # uid THEN Answer(403, ps)
  ELSE IF ~findActiveUser(us, userId) THEN Answer(404, ps)
  ELSE IF isTeamMember(ps[id], userId) THEN Answer(400, ps)
  ELSE IF DefaultAllocation(allocation) < 1 \/ DefaultAllocation(allocation) > 100
       THEN Answer(400, ps)
  ELSE
    LET a == methods_addTeamMember(ps[id], userId, DefaultRole(role),
                                   DefaultAllocation(allocation), now)
    IN IF a.code # 0 THEN Answer(a.code, ps)
       ELSE LET s == saveProject([a.doc EXCEPT !.updatedBy = uid])
            IN IF s.code # 0 THEN Answer(s.code, [ps EXCEPT ![id] = a.doc])
               ELSE Answer(200, [ps EXCEPT ![id] = s.doc])

updateTeamMember(ps, us, uid, id, userId, role, allocation) ==
  IF userId = None THEN Answer(400, ps)
  ELSE IF id \notin DOMAIN ps THEN Answer(404, ps)
  ELSE IF us[uid].role # "admin" /\ ps[id].manager # uid THEN Answer(403, ps)
  ELSE IF ~findActiveUser(us, userId) THEN Answer(404, ps)
  ELSE IF ~isTeamMember(ps[id], userId) THEN Answer(400, ps)
  ELSE IF DefaultAllocation(allocation) < 1 \/ DefaultAllocation(allocation) > 100
       THEN Answer(400, ps)
  ELSE
    LET i == FirstActiveEntryOf(ps[id].team, userId)
        s == saveProject([ps[id] EXCEPT
               !.team[i] = [@ EXCEPT !.role = DefaultRole(role),
                                     !.allocation = DefaultAllocation(allocation)],
               !.updatedBy = uid])
    IN IF s.code # 0 THEN Answer(s.code, ps)
       ELSE Answer(200, [ps EXCEPT ![id] = s.doc])

\* fault: removeTeamMember without the test for the project manager
removeTeamMemberAnyUser(ps, us, uid, id, userId, now) ==
  IF id \notin DOMAIN ps THEN Answer(404, ps)
  ELSE IF us[uid].role # "admin" /\ ps[id].manager # uid THEN Answer(403, ps)
  ELSE IF ~isTeamMember(ps[id], userId) THEN Answer(400, ps)
  ELSE
    LET r == methods_removeTeamMember(ps[id], userId, now)
    IN IF r.code # 0 THEN Answer(r.code, ps)
       ELSE Answer(200, [ps EXCEPT ![id] = [r.doc EXCEPT !.updatedBy = uid]])

removeTeamMember(ps, us, uid, id, userId, now) ==
  IF id \notin DOMAIN ps THEN Answer(404, ps)
  ELSE IF us[uid].role # "admin" /\ ps[id].manager # uid THEN Answer(403, ps)
  ELSE IF ps[id].manager = userId THEN Answer(400, ps)
  ELSE IF ~isTeamMember(ps[id], userId) THEN Answer(400, ps)
  ELSE
    LET r == methods_removeTeamMember(ps[id], userId, now)
    IN IF r.code # 0 THEN Answer(r.code, ps)
       ELSE LET s == saveProject([r.doc EXCEPT !.updatedBy = uid])
            IN IF s.code # 0 THEN Answer(s.code, [ps EXCEPT ![id] = r.doc])
               ELSE Answer(200, [ps EXCEPT ![id] = s.doc])

\* --------------------------------------------------------- document model
DocumentTypeEnum ==
  {"contract", "resume", "id_proof", "address_proof", "certificate", "offer_letter",
   "nda", "policy", "report", "presentation", "other"}

PermissionEnum == {"view", "comment", "edit"}

\* a share entry of sharedWithSchema
Share(user, permission, sharedBy) ==
  [user |-> user, permission |-> permission, sharedBy |-> sharedBy]

\* the document as the constructor leaves it, defaults applied
NewDocument(uid, documentType, isPublic) ==
  [uploadedBy |-> uid, department |-> DepartmentOf(uid), description |-> "",
   documentType |-> documentType, isPublic |-> isPublic, sharedWith |-> <<>>,
   isDeleted |-> FALSE, deletedAt |-> NoDate, deletedBy |-> None, version |-> 1]

\* schema validation of save(): the enums of documentType and permission
DocumentValid(doc) ==
  /\ doc.documentType \in DocumentTypeEnum
  /\ \A i \in DOMAIN doc.sharedWith : doc.sharedWith[i].permission \in PermissionEnum

\* index of a permission in ['view', 'comment', 'edit']
PermissionLevel(p) == CASE p = "view" -> 0 [] p = "comment" -> 1 [] p = "edit" -> 2 [] OTHER -> -1

\* documentSchema.methods.hasPermission; no handler calls it
hasPermission(doc, userId, requiredPermission) ==
  \/ doc.uploadedBy = userId
  \/ /\ \E i \in DOMAIN doc.sharedWith : doc.sharedWith[i].user = userId
     /\ LET i == CHOOSE j \in DOMAIN doc.sharedWith :
                   /\ doc.sharedWith[j].user = userId
                   /\ \A k \in DOMAIN doc.sharedWith : doc.sharedWith[k].user = userId => j <= k
        IN PermissionLevel(doc.sharedWith[i].permission) >= PermissionLevel(requiredPermission)

\* What a save() sends to the store: $set of the modified paths, among them
\* version, which the pre('save') hook raised by one on the copy that was read
\* (isModified() holds for every save the handlers make), and $push of the
\* new shares.
Write(code, set, push) == [code |-> code, set |-> set, push |-> push]

\* nothing is saved
NoWrite(code) == Write(code, <<>>, <<>>)

\* the update applied to the stored document
applyWrite(doc, w) ==
  [f \in DOMAIN doc |->
     IF f \in DOMAIN w.set THEN w.set[f]
     ELSE IF f = "sharedWith" THEN doc.sharedWith \o w.push
     ELSE doc[f]]

\* the store after the save of a handler that read documents[id]
saveDocument(ds, id, w) ==
  IF w.code = 200 THEN [ds EXCEPT ![id] = applyWrite(@, w)] ELSE ds

\* ---------------------------------------------------- document controller
\* uploader, admin or hr: the test of updateDocument, shareDocument and
\* deleteDocument
MayManage(doc, uid) == doc.uploadedBy = uid \/ RoleOf(uid) \in {"admin", "hr"}

\* uploadDocument of the document controller: Document.create runs the
\* pre('save') hook on the new document, for which isModified() holds, so the
\* stored version is the default 1 raised by one
uploadDocumentFile(ds, uid, documentType, isPublic) ==
  LET doc == NewDocument(uid, IF documentType = NoText THEN "other" ELSE documentType,
                         isPublic = "true")
  IN IF ~DocumentValid(doc) THEN Answer(400, ds)
     ELSE Answer(201, Append(ds, [doc EXCEPT !.version = @ + 1]))

\* isAuthorizedToView; populated tells that uploadedBy and sharedWith.user
\* were populated, and then their toString() is not the id the test compares
isAuthorizedToView(doc, uid, populated) ==
  \/ RoleOf(uid) \in {"admin", "hr"}
  \/ ~populated /\ doc.uploadedBy = uid
  \/ doc.isPublic
  \/ ~populated /\ \E i \in DOMAIN doc.sharedWith : doc.sharedWith[i].user = uid
  \/ RoleOf(uid) = "manager" /\ doc.department = DepartmentOf(uid)

\* findOne({_id: id, isDeleted: false}) and the view test
viewDocument(ds, uid, id, populated) ==
  IF id \notin DOMAIN ds \/ ds[id].isDeleted THEN 404
  ELSE IF ~isAuthorizedToView(ds[id], uid, populated) THEN 403
  ELSE 200

\* getDocument populates uploadedBy and sharedWith.user before the test
getDocument(ds, uid, id) == viewDocument(ds, uid, id, TRUE)

downloadDocument(ds, uid, id) == viewDocument(ds, uid, id, FALSE)

\* the body of updateDocument; NoText is an absent field
UpdateBody(description, documentType, isPublic) ==
  [description |-> description, documentType |-> documentType, isPublic |-> isPublic]

\* updateDocument up to its save
updateDocumentWrite(ds, uid, id, body) ==
  IF id \notin DOMAIN ds THEN NoWrite(404)
  ELSE IF ~MayManage(ds[id], uid) THEN NoWrite(403)
  ELSE LET set == (IF body.description \notin {NoText, ""}
                   THEN "description" :> body.description ELSE <<>>)
                  @@ (IF body.documentType \notin {NoText, ""}
                      THEN "documentType" :> body.documentType ELSE <<>>)
                  @@ (IF body.isPublic # NoText
                      THEN "isPublic" :> (body.isPublic = "true") ELSE <<>>)
                  @@ ("version" :> ds[id].version + 1)
       IN IF ~DocumentValid(applyWrite(ds[id], Write(200, set, <<>>))) THEN NoWrite(400)
          ELSE Write(200, set, <<>>)

updateDocument(ds, uid, id, body) ==
  LET w == updateDocumentWrite(ds, uid, id, body)
  IN Answer(w.code, saveDocument(ds, id, w))

\* newShares: one entry per element of userIds that existingUserIds, taken
\* before the loop, does not include
newShares(doc, uid, userIds, permission) ==
  LET existingUserIds == {doc.sharedWith[j].user : j \in DOMAIN doc.sharedWith}
      RECURSIVE Collect(_, _)
      Collect(i, acc) ==
        IF i > Len(userIds) THEN acc
        ELSE IF userIds[i] \in existingUserIds THEN Collect(i + 1, acc)
             ELSE Collect(i + 1, Append(acc, Share(userIds[i], permission, uid)))
  IN Collect(1, <<>>)

\* shareDocument up to its save; nothing is saved when newShares is empty
shareDocumentWrite(ds, uid, id, userIds, permission) ==
  IF userIds = <<>> THEN NoWrite(400)
  ELSE IF id \notin DOMAIN ds THEN NoWrite(404)
  ELSE IF ~MayManage(ds[id], uid) THEN NoWrite(403)
  ELSE LET new == newShares(ds[id], uid, userIds, permission)
       IN IF new = <<>> THEN NoWrite(200)
          ELSE IF permission \notin PermissionEnum THEN NoWrite(400)
          ELSE Write(200, "version" :> ds[id].version + 1, new)

shareDocument(ds, uid, id, userIds, permission) ==
  LET w == shareDocumentWrite(ds, uid, id, userIds, permission)
  IN Answer(w.code, saveDocument(ds, id, w))

\* deleteDocument up to its save
deleteDocumentWrite(ds, uid, id, now) ==
  IF id \notin DOMAIN ds THEN NoWrite(404)
  ELSE IF ~MayManage(ds[id], uid) THEN NoWrite(403)
  ELSE Write(200, ("isDeleted" :> TRUE) @@ ("deletedAt" :> now) @@ ("deletedBy" :> uid)
                  @@ ("version" :> ds[id].version + 1), <<>>)

deleteDocument(ds, uid, id, now) ==
  LET w == deleteDocumentWrite(ds, uid, id, now)
  IN Answer(w.code, saveDocument(ds, id, w))

\* ------------------------------------------------ team members in flight
\* What the save() of projectSchema.methods.addTeamMember sends, computed on
\* the project as findById returned it: a $push of the new entry (at = 0),
\* or a $set of the entry at position at, which the store applies only
\* while the array is the one that was read. base is the length of the team
\* that was read; among the requests that add members the array has changed
\* exactly when its length has.
TeamWrite(code, at, entry, base, uid) ==
  [code |-> code, at |-> at, entry |-> entry, base |-> base, updatedBy |-> uid]

\* addTeamMember up to the save of the model method
addTeamMemberWrite(ps, us, uid, id, userId, role, allocation, now) ==
  LET refused(code) == TeamWrite(code, 0, TeamEntry(userId, "developer", 100, now), 0, uid)
  IN IF userId = None THEN refused(400)
     ELSE IF id \notin DOMAIN ps THEN refused(404)
     ELSE IF us[uid].role # "admin" /\ ps[id].manager # uid THEN refused(403)
     ELSE IF ~findActiveUser(us, userId) THEN refused(404)
     ELSE IF isTeamMember(ps[id], userId) THEN refused(400)
     ELSE IF DefaultAllocation(allocation) < 1 \/ DefaultAllocation(allocation) > 100
          THEN refused(400)
     ELSE LET i == FirstEntryOf(ps[id].team, userId)
              a == methods_addTeamMember(ps[id], userId, DefaultRole(role),
                                         DefaultAllocation(allocation), now)
          IN IF a.code # 0 THEN refused(a.code)
             ELSE TeamWrite(200, i, a.doc.team[IF i # 0 THEN i ELSE Len(a.doc.team)],
                            Len(ps[id].team), uid)

\* the two saves of the handler against the stored project: the entry, then
\* updatedBy; a $set on a changed array is a VersionError, answered 500
saveTeamWrite(doc, w) ==
  IF w.at = 0
  THEN [code |-> 200, doc |-> [doc EXCEPT !.team = Append(@, w.entry), !.updatedBy = w.updatedBy]]
  ELSE IF Len(doc.team) # w.base THEN [code |-> 500, doc |-> doc]
  ELSE [code |-> 200, doc |-> [doc EXCEPT !.team[w.at] = w.entry, !.updatedBy = w.updatedBy]]

\* ------------------------------------------------------------------- state
NewUser(u, status) ==
  [role |-> RoleOf(u), manager |-> ManagerOf(u), status |-> status,
   lastLogin |-> 1, documents |-> <<>>, statusHistory |-> <<>>]

\* no payload
NoData == [kind |-> "none"]

NoResp == [op |-> "none", caller |-> None, target |-> None, code |-> 0]

Respond(op, tok, target, code) ==
  resp' = [op |-> op, caller |-> tok, target |-> target, code |-> code]

HistoryCount(us) ==
  LET RECURSIVE Sum(_)
      Sum(S) == IF S = {} THEN 0
                ELSE LET u == CHOOSE v \in S : TRUE
                     IN Len(us[u].statusHistory) + Sum(S \ {u})
  IN Sum(DOMAIN us)

\* every account is active but the new employee 5, which createEmployee
\* leaves in onboarding
InitUsers == [u \in UserIds |-> NewUser(u, IF u = 5 THEN "onboarding" ELSE "active")]

Init ==
  /\ users = InitUsers
  /\ appraisals = <<NewAppraisal(4, 3, 2)>>
  /\ warnings = <<>>
  /\ projects = <<>>
  /\ documents = <<>>
  /\ pending = <<>>
  /\ data = NoData
  /\ clock = 1
  /\ resp = NoResp

\* accounts 3 and 4 may have been suspended or terminated since they logged in
InitAuth ==
  /\ users \in {[InitUsers EXCEPT ![3].status = s3, ![4].status = s4] :
                  s3 \in {"active", "suspended"}, s4 \in {"active", "terminated"}}
  /\ appraisals = <<NewAppraisal(4, 3, 2)>>
  /\ warnings = <<>>
  /\ projects = <<>>
  /\ documents = <<>>
  /\ pending = <<>>
  /\ data = NoData
  /\ clock = 1
  /\ resp = NoResp

Tick ==
  /\ clock < MaxClock
  /\ clock' = clock + 1
  /\ UNCHANGED <<users, appraisals, warnings, projects, resp, docVars>>

\* ------------------------------------------------------------ middleware step
\* protect on its own: code 0 when it calls next() without an error
Protect(tok, saved) ==
  LET a == protectSave(users, tok, clock, saved)
  IN /\ users' = a.users
     /\ Respond("protect", tok, tok, a.code)
     /\ UNCHANGED <<appraisals, warnings, projects, clock, docVars>>

\* GET /appraisals/stats
GetAppraisalStats(tok) ==
  LET g == Guarded(users, tok, {"admin", "hr", "manager"}, clock)
  IN /\ users' = g.users
     /\ data' = IF g.code # 0 THEN NoData
                ELSE [kind |-> "stats", stats |-> getAppraisalStats(appraisals, g.users, tok, clock)]
     /\ Respond("getAppraisalStats", tok, None, IF g.code # 0 THEN g.code ELSE 200)
     /\ UNCHANGED <<appraisals, warnings, projects, documents, pending, clock>>

\* the method applied to the appraisal in data
CalculateOverallRating ==
  /\ data.kind = "appraisal"
  /\ ~data.computed
  /\ data' = [data EXCEPT !.computed = TRUE, !.result = calculateOverallRating(data.doc)]
  /\ UNCHANGED <<users, appraisals, warnings, projects, documents, pending, clock, resp>>

\* ----------------------------------------------------- employee requests
GetEmployee(tok, id) ==
  LET g == Guarded(users, tok, RoleNames, clock)
      r == IF g.code # 0 THEN g ELSE getEmployee(g.users, tok, id)
  IN /\ users' = r.users
     /\ Respond("getEmployee", tok, id, r.code)
     /\ UNCHANGED <<appraisals, warnings, projects, clock, docVars>>

GetTeamMembers(tok) ==
  LET g == Guarded(users, tok, {"admin", "hr", "manager"}, clock)
      r == IF g.code # 0 THEN g ELSE getTeamMembers(g.users, tok)
  IN /\ users' = r.users
     /\ Respond("getTeamMembers", tok, None, r.code)
     /\ UNCHANGED <<appraisals, warnings, projects, clock, docVars>>

\* statusUpdateSchema of the route
StatusUpdateValid(status, effectiveDate, reason) ==
  /\ status \in StatusAllowed
  /\ effectiveDate # NoDate
  /\ reason # ""

UpdateEmployeeStatus(tok, id, status, effectiveDate, reason) ==
  LET g == Guarded(users, tok, {"admin", "hr"}, clock)
      r == IF g.code # 0 THEN g
           ELSE IF ~StatusUpdateValid(status, effectiveDate, reason)
                THEN Reply(400, g.users)
           ELSE updateEmployeeStatus(g.users, tok, id, status, effectiveDate, reason, clock)
  IN /\ HistoryCount(users) < MaxHistory
     /\ users' = r.users
     /\ Respond("updateEmployeeStatus", tok, id, r.code)
     /\ UNCHANGED <<appraisals, warnings, projects, clock, docVars>>

\* updateEmployeeSchema of the route
UpdateValid(status) == status = NoStatus \/ status \in StatusAllowed

UpdateEmployee(tok, id, status) ==
  LET g == Guarded(users, tok, {"admin", "hr"}, clock)
      r == IF g.code # 0 THEN g
           ELSE IF ~UpdateValid(status) THEN Reply(400, g.users)
           ELSE updateEmployee(g.users, tok, id, status)
  IN /\ users' = r.users
     /\ Respond("updateEmployee", tok, id, r.code)
     /\ UNCHANGED <<appraisals, warnings, projects, clock, docVars>>

UploadDocument(tok, id) ==
  LET g == Guarded(users, tok, RoleNames, clock)
      r == IF g.code # 0 THEN g ELSE uploadDocument(g.users, tok, id)
  IN /\ DocCount(users) < MaxDocs
     /\ users' = r.users
     /\ Respond("uploadDocument", tok, id, r.code)
     /\ UNCHANGED <<appraisals, warnings, projects, clock, docVars>>

VerifyDocument(tok, docId, status, rejectionReason) ==
  LET g == Guarded(users, tok, {"admin", "hr"}, clock)
      r == IF g.code # 0 THEN g
           ELSE verifyDocument(g.users, tok, docId, status, rejectionReason, clock)
  IN /\ users' = r.users
     /\ Respond("verifyDocument", tok, docId, r.code)
     /\ UNCHANGED <<appraisals, warnings, projects, clock, docVars>>

\* ---------------------------------------------------- appraisal requests
SubmitSelfAssessment(tok, id, selfAssessment, goals) ==
  LET g == Guarded(users, tok, RoleNames, clock)
      r == IF g.code # 0 THEN Answer(g.code, appraisals)
           ELSE submitSelfAssessment(appraisals, tok, id, selfAssessment, goals, clock)
  IN /\ users' = g.users
     /\ appraisals' = r.store
     /\ Respond("submitSelfAssessment", tok, id, r.code)
     /\ UNCHANGED <<warnings, projects, clock, docVars>>

SubmitReview(tok, id, review, rating, status, goals) ==
  LET g == Guarded(users, tok, {"admin", "hr", "manager"}, clock)
      r == IF g.code # 0 THEN Answer(g.code, appraisals)
           ELSE submitReview(appraisals, tok, id, review, rating, status, goals, clock)
  IN /\ users' = g.users
     /\ appraisals' = r.store
     /\ Respond("submitReview", tok, id, r.code)
     /\ UNCHANGED <<warnings, projects, clock, docVars>>

CreateAppraisal(tok, employee, reviewer, appraisalDate) ==
  LET g == Guarded(users, tok, {"admin", "hr", "manager"}, clock)
      r == IF g.code # 0 THEN Answer(g.code, appraisals)
           ELSE createAppraisal(appraisals, g.users, tok, employee, reviewer, appraisalDate)
  IN /\ Len(appraisals) < MaxAppraisals
     /\ users' = g.users
     /\ appraisals' = r.store
     /\ Respond("createAppraisal", tok, employee, r.code)
     /\ UNCHANGED <<warnings, projects, clock, docVars>>

UpdateAppraisal(tok, id, body) ==
  LET g == Guarded(users, tok, {"admin", "hr", "manager"}, clock)
      r == IF g.code # 0 THEN Answer(g.code, appraisals)
           ELSE updateAppraisal(appraisals, g.users, tok, id, body, clock)
  IN /\ users' = g.users
     /\ appraisals' = r.store
     /\ Respond("updateAppraisal", tok, id, r.code)
     /\ UNCHANGED <<warnings, projects, clock, docVars>>

\* ------------------------------------------------------ warning requests
\* the roles the warning routes admit
WarningRouteRoles == {"admin", "hr", "manager"}

\* the express-validator chains of the warning routes, as far as they read
\* the modelled keys: validUntil is required on create, status is optional
\* and one of the four on update, the reason is required on the withdraw path
createWarningSchema(validUntil) == validUntil # NoDate

updateWarningSchema(status) == status = NoStatus \/ status \in WarningStatusEnum

actionSchema(path, reason) == path = "withdraw" => reason # ""

CreateWarning(tok, employeeId, dateIssued, validUntil) ==
  LET g == Guarded(users, tok, WarningRouteRoles, clock)
      r == IF g.code # 0 THEN Answer(g.code, warnings)
           ELSE IF ~createWarningSchema(validUntil) THEN Answer(400, warnings)
           ELSE createWarning(warnings, tok, employeeId, dateIssued, validUntil, clock)
  IN /\ Len(warnings) < MaxWarnings
     /\ users' = g.users
     /\ warnings' = r.store
     /\ Respond("createWarning", tok, employeeId, r.code)
     /\ UNCHANGED <<appraisals, projects, clock, docVars>>

UpdateWarning(tok, id, dateIssued, validUntil, status) ==
  LET g == Guarded(users, tok, WarningRouteRoles, clock)
      r == IF g.code # 0 THEN Answer(g.code, warnings)
           ELSE IF ~updateWarningSchema(status) THEN Answer(400, warnings)
           ELSE updateWarning(warnings, g.users, tok, id, dateIssued, validUntil, status, clock)
  IN /\ users' = g.users
     /\ warnings' = r.store
     /\ Respond("updateWarning", tok, id, r.code)
     /\ UNCHANGED <<appraisals, projects, clock, docVars>>

ResolveWarning(tok, id, notes) ==
  LET g == Guarded(users, tok, WarningRouteRoles, clock)
      r == IF g.code # 0 THEN Answer(g.code, warnings)
           ELSE IF ~actionSchema("resolve", "") THEN Answer(400, warnings)
           ELSE resolveWarning(warnings, g.users, tok, id, notes, clock)
  IN /\ users' = g.users
     /\ warnings' = r.store
     /\ Respond("resolveWarning", tok, id, r.code)
     /\ UNCHANGED <<appraisals, projects, clock, docVars>>

EscalateWarning(tok, id, notes) ==
  LET g == Guarded(users, tok, WarningRouteRoles, clock)
      r == IF g.code # 0 THEN Answer(g.code, warnings)
           ELSE IF ~actionSchema("escalate", "") THEN Answer(400, warnings)
           ELSE escalateWarning(warnings, tok, id, notes, clock)
  IN /\ users' = g.users
     /\ warnings' = r.store
     /\ Respond("escalateWarning", tok, id, r.code)
     /\ UNCHANGED <<appraisals, projects, clock, docVars>>

WithdrawWarning(tok, id, reason) ==
  LET g == Guarded(users, tok, {"admin", "hr"}, clock)
      r == IF g.code # 0 THEN Answer(g.code, warnings)
           ELSE IF ~actionSchema("withdraw", reason) THEN Answer(400, warnings)
           ELSE withdrawWarning(warnings, tok, id, reason, clock)
  IN /\ users' = g.users
     /\ warnings' = r.store
     /\ Respond("withdrawWarning", tok, id, r.code)
     /\ UNCHANGED <<appraisals, projects, clock, docVars>>

\* GET /warnings/:id
GetWarning(tok, id) ==
  LET g == Guarded(users, tok, WarningRouteRoles, clock)
  IN /\ users' = g.users
     /\ Respond("getWarning", tok, id,
                IF g.code # 0 THEN g.code ELSE getWarning(warnings, g.users, tok, id))
     /\ UNCHANGED <<appraisals, warnings, projects, clock, docVars>>

\* DELETE /warnings/:id
DeleteWarning(tok, id) ==
  LET g == Guarded(users, tok, {"admin", "hr"}, clock)
      r == IF g.code # 0 THEN Answer(g.code, warnings)
           ELSE deleteWarning(warnings, tok, id, clock)
  IN /\ users' = g.users
     /\ warnings' = r.store
     /\ Respond("deleteWarning", tok, id, r.code)
     /\ UNCHANGED <<appraisals, projects, clock, docVars>>

\* ------------------------------------------------------ project requests
\* authorize('admin', 'manager') of the project routes that change a project
ProjectRouteRoles == {"admin", "manager"}

\* no team grows beyond MaxTeam entries
TeamsBounded(ps) == \A i \in DOMAIN ps : Len(ps[i].team) <= MaxTeam

CreateProject(tok, manager, team) ==
  LET g == Guarded(users, tok, ProjectRouteRoles, clock)
      r == IF g.code # 0 THEN Answer(g.code, projects)
           ELSE createProject(projects, g.users, tok, manager, team, clock)
  IN /\ Len(projects) < MaxProjects
     /\ Len(team) <= MaxTeam
     /\ users' = g.users
     /\ projects' = r.store
     /\ Respond("createProject", tok, manager, r.code)
     /\ UNCHANGED <<appraisals, warnings, clock, docVars>>

AssignManager(tok, id, managerId) ==
  LET g == Guarded(users, tok, ProjectRouteRoles, clock)
      r == IF g.code # 0 THEN Answer(g.code, projects)
           ELSE assignManager(projects, g.users, tok, id, managerId, clock)
  IN /\ users' = g.users
     /\ projects' = r.store
     /\ Respond("assignManager", tok, id, r.code)
     /\ UNCHANGED <<appraisals, warnings, clock, docVars>>

AddTeamMember(tok, id, userId, role, allocation) ==
  LET g == Guarded(users, tok, ProjectRouteRoles, clock)
      r == IF g.code # 0 THEN Answer(g.code, projects)
           ELSE addTeamMember(projects, g.users, tok, id, userId, role, allocation, clock)
  IN /\ TeamsBounded(r.store)
     /\ users' = g.users
     /\ projects' = r.store
     /\ Respond("addTeamMember", tok, id, r.code)
     /\ UNCHANGED <<appraisals, warnings, clock, docVars>>

UpdateTeamMember(tok, id, userId, role, allocation) ==
  LET g == Guarded(users, tok, ProjectRouteRoles, clock)
      r == IF g.code # 0 THEN Answer(g.code, projects)
           ELSE updateTeamMember(projects, g.users, tok, id, userId, role, allocation)
  IN /\ users' = g.users
     /\ projects' = r.store
     /\ Respond("updateTeamMember", tok, id, r.code)
     /\ UNCHANGED <<appraisals, warnings, clock, docVars>>

RemoveTeamMember(tok, id, userId) ==
  LET g == Guarded(users, tok, ProjectRouteRoles, clock)
      r == IF g.code # 0 THEN Answer(g.code, projects)
           ELSE removeTeamMember(projects, g.users, tok, id, userId, clock)
  IN /\ users' = g.users
     /\ projects' = r.store
     /\ Respond("removeTeamMember", tok, id, r.code)
     /\ UNCHANGED <<appraisals, warnings, clock, docVars>>

\* ----------------------------------------------------- document requests
\* router.use(protect), then authorize(...) of the route

\* POST /documents
UploadDocumentFile(tok, documentType, isPublic) ==
  LET g == Guarded(users, tok, RoleNames, clock)
      r == IF g.code # 0 THEN Answer(g.code, documents)
           ELSE uploadDocumentFile(documents, tok, documentType, isPublic)
  IN /\ Len(documents) < MaxDocuments
     /\ users' = g.users
     /\ documents' = r.store
     /\ Respond("uploadDocument", tok, Len(documents) + 1, r.code)
     /\ UNCHANGED <<appraisals, warnings, projects, pending, data, clock>>

\* GET /documents/:id
GetDocument(tok, id) ==
  LET g == Guarded(users, tok, RoleNames, clock)
  IN /\ users' = g.users
     /\ Respond("getDocument", tok, id,
                IF g.code # 0 THEN g.code ELSE getDocument(documents, tok, id))
     /\ UNCHANGED <<appraisals, warnings, projects, clock, docVars>>

\* GET /documents/download/:id
DownloadDocument(tok, id) ==
  LET g == Guarded(users, tok, RoleNames, clock)
  IN /\ users' = g.users
     /\ Respond("downloadDocument", tok, id,
                IF g.code # 0 THEN g.code ELSE downloadDocument(documents, tok, id))
     /\ UNCHANGED <<appraisals, warnings, projects, clock, docVars>>

\* PUT /documents/:id
UpdateDocument(tok, id, body) ==
  LET g == Guarded(users, tok, RoleNames, clock)
      r == IF g.code # 0 THEN Answer(g.code, documents)
           ELSE updateDocument(documents, tok, id, body)
  IN /\ id \in DOMAIN documents => documents[id].version < MaxVersion
     /\ users' = g.users
     /\ documents' = r.store
     /\ Respond("updateDocument", tok, id, r.code)
     /\ UNCHANGED <<appraisals, warnings, projects, pending, data, clock>>

\* PUT /documents/:id/share
ShareDocument(tok, id, userIds, permission) ==
  LET g == Guarded(users, tok, {"admin", "hr", "manager"}, clock)
      r == IF g.code # 0 THEN Answer(g.code, documents)
           ELSE shareDocument(documents, tok, id, userIds, permission)
  IN /\ id \in DOMAIN documents =>
          /\ documents[id].version < MaxVersion
          /\ Len(documents[id].sharedWith) + Len(userIds) <= MaxShares
     /\ users' = g.users
     /\ documents' = r.store
     /\ Respond("shareDocument", tok, id, r.code)
     /\ UNCHANGED <<appraisals, warnings, projects, pending, data, clock>>

\* DELETE /documents/:id
DeleteDocument(tok, id) ==
  LET g == Guarded(users, tok, {"admin", "hr", "manager"}, clock)
      r == IF g.code # 0 THEN Answer(g.code, documents)
           ELSE deleteDocument(documents, tok, id, clock)
  IN /\ id \in DOMAIN documents => documents[id].version < MaxVersion
     /\ users' = g.users
     /\ documents' = r.store
     /\ Respond("deleteDocument", tok, id, r.code)
     /\ UNCHANGED <<appraisals, warnings, projects, pending, data, clock>>

\* ------------------------------------------- document requests in flight
\* A handler awaits the store twice: findById, then save. Between the two
\* another request may run. The request that has read and been admitted
\* waits in pending with the write its save will send.
InFlight(op, tok, id, w) == [op |-> op, caller |-> tok, id |-> id, write |-> w]

\* the handler up to its save, for an admitted request
Await(op, tok, id, g, w) ==
  /\ g.code = 0
  /\ w.code = 200
  /\ Len(pending) < MaxPending
  /\ documents[id].version < MaxVersion
  /\ users' = g.users
  /\ pending' = Append(pending, InFlight(op, tok, id, w))
  /\ Respond("await", tok, id, 0)
  /\ UNCHANGED <<appraisals, warnings, projects, documents, data, clock>>

ReadForUpdate(tok, id, body) ==
  Await("updateDocument", tok, id, Guarded(users, tok, RoleNames, clock),
        updateDocumentWrite(documents, tok, id, body))

ReadForShare(tok, id, userIds, permission) ==
  Await("shareDocument", tok, id, Guarded(users, tok, {"admin", "hr", "manager"}, clock),
        shareDocumentWrite(documents, tok, id, userIds, permission))

ReadForDelete(tok, id) ==
  Await("deleteDocument", tok, id, Guarded(users, tok, {"admin", "hr", "manager"}, clock),
        deleteDocumentWrite(documents, tok, id, clock))

\* await document.save() of the k-th request in flight, and its answer
CompleteSave(k) ==
  /\ k \in DOMAIN pending
  /\ pending[k].op # "addTeamMember"
  /\ documents' = saveDocument(documents, pending[k].id, pending[k].write)
  /\ pending' = SubSeq(pending, 1, k - 1) \o SubSeq(pending, k + 1, Len(pending))
  /\ Respond(pending[k].op, pending[k].caller, pending[k].id, 200)
  /\ UNCHANGED <<users, appraisals, warnings, projects, data, clock>>

\* POST /projects/:id/team up to the save of the model method
ReadForAddMember(tok, id, userId, role, allocation) ==
  LET g == Guarded(users, tok, ProjectRouteRoles, clock)
      w == addTeamMemberWrite(projects, g.users, tok, id, userId, role, allocation, clock)
  IN /\ g.code = 0
     /\ w.code = 200
     /\ Len(pending) < MaxPending
     /\ Len(projects[id].team) + Len(pending) < MaxTeam
     /\ users' = g.users
     /\ pending' = Append(pending, InFlight("addTeamMember", tok, id, w))
     /\ Respond("await", tok, id, 0)
     /\ UNCHANGED <<appraisals, warnings, projects, documents, data, clock>>

\* the saves of the k-th request in flight, and its answer
CompleteAdd(k) ==
  /\ k \in DOMAIN pending
  /\ pending[k].op = "addTeamMember"
  /\ LET p == pending[k]
         r == saveTeamWrite(projects[p.id], p.write)
     IN /\ projects' = [projects EXCEPT ![p.id] = r.doc]
        /\ Respond(p.op, p.caller, p.id, r.code)
  /\ pending' = SubSeq(pending, 1, k - 1) \o SubSeq(pending, k + 1, Len(pending))
  /\ UNCHANGED <<users, appraisals, warnings, documents, data, clock>>

\* ------------------------------------------------------------ the inputs
Reasons == {"", "r"}
Notes == {"", "n"}
Dates == 1..MaxDate
GoalInputs == {[given |-> FALSE, list |-> <<>>], [given |-> TRUE, list |-> <<>>],
               [given |-> TRUE, list |-> <<1>>]}
WarningTargets == 1..(MaxWarnings + 1)

\* profile reads and the appraisal submissions, by every principal
NextAccess ==
  \/ \E tok \in Tokens, id \in UserIds \cup {MissingId} : GetEmployee(tok, id)
  \/ \E tok \in Tokens : GetTeamMembers(tok)
  \/ \E tok \in Tokens, id \in {1, 2}, sa \in {"", "s"}, gs \in GoalInputs :
        SubmitSelfAssessment(tok, id, sa, gs)
  \/ \E tok \in Tokens, id \in {1, 2}, rv \in {"", "r"}, rt \in {0, 3, 6},
        st \in {NoStatus, "needs_review"}, gs \in GoalInputs :
        SubmitReview(tok, id, rv, rt, st, gs)

SpecAccess == Init /\ [][NextAccess]_vars

\* requests of accounts in every status, as time passes
NextAuth ==
  \/ Tick
  \/ \E tok \in {1, 3, 4, MissingId, NoToken}, id \in {4, 5} : GetEmployee(tok, id)
  \/ \E tok \in {1, 3, 4, MissingId, NoToken}, s \in {"active", "terminated"} :
        UpdateEmployee(tok, 4, s)

SpecAuth == InitAuth /\ [][NextAuth]_vars

\* the status and the documents of employee 5
NextLife ==
  \/ \E s \in StatusInputs, d \in {NoDate, 1}, rs \in Reasons :
        UpdateEmployeeStatus(1, 5, s, d, rs)
  \/ UpdateEmployeeStatus(5, 5, "active", 1, "r")
  \/ \E s \in StatusInputs \cup {NoStatus} : UpdateEmployee(1, 5, s)
  \/ UpdateEmployee(5, 5, "active")
  \/ \E tok \in {1, 5} : UploadDocument(tok, 5)
  \/ \E d \in 1..(MaxDocs + 1), s \in DocStatusEnum, rs \in Reasons :
        VerifyDocument(1, d, s, rs)
  \/ VerifyDocument(5, 1, "verified", "")

Spec == Init /\ [][NextLife]_vars

\* warnings issued by the admin and by manager 3, and who may resolve them
NextResolve ==
  \/ \E tok \in {1, 3}, e \in EmployeeIds : CreateWarning(tok, e, NoDate, 2)
  \/ \E tok \in {1, 2, 3, 4}, id \in WarningTargets, n \in Notes :
        ResolveWarning(tok, id, n)

SpecResolve == Init /\ [][NextResolve]_vars

\* the dates of warnings; updates and escalations go to the first warning
\* and to an id that names none
NextWarn ==
  \/ \E di \in Dates \cup {NoDate}, vu \in Dates \cup {NoDate} : CreateWarning(1, 1, di, vu)
  \/ \E tok \in {2, 4} : CreateWarning(tok, MissingId, NoDate, MaxDate)
  \/ \E id \in {1, MaxWarnings + 1}, di \in Dates \cup {NoDate}, vu \in Dates \cup {NoDate} :
        UpdateWarning(1, id, di, vu, NoStatus)
  \/ UpdateWarning(3, 1, MaxDate, NoDate, NoStatus)
  \/ \E tok \in {1, 3}, id \in {1, MaxWarnings + 1}, n \in Notes : EscalateWarning(tok, id, n)

SpecWarn == Init /\ [][NextWarn]_vars

\* resolve, withdraw and update of warnings the admin issued
NextTerminal ==
  \/ CreateWarning(1, 1, NoDate, MaxDate)
  \/ \E tok \in {1, 3}, id \in WarningTargets : ResolveWarning(tok, id, "n")
  \/ \E tok \in {1, 2, 3, 4}, id \in WarningTargets, rs \in Reasons :
        WithdrawWarning(tok, id, rs)
  \/ \E id \in WarningTargets, st \in WarningStatusEnum \cup {"closed"} :
        UpdateWarning(2, id, NoDate, NoDate, st)

SpecTerminal == Init /\ [][NextTerminal]_vars

\* appraisal dates: the midnight and a later hour of two days
AppraisalDates == 2..5

\* appraisals created for employee 4 (active) and 5 (onboarding), and the
\* admin's updates of their status and date
NextDup ==
  \/ \E tok \in {1, 3, 4}, e \in {4, 5}, d \in AppraisalDates : CreateAppraisal(tok, e, 3, d)
  \/ CreateAppraisal(1, 4, 4, 2)
  \/ \E id \in 1..MaxAppraisals, st \in {NoStatus, "cancelled", "draft"},
        d \in AppraisalDates \cup {NoDate} :
        UpdateAppraisal(1, id, Body(st, NoText, NoText, NoGoals, d))

SpecDup == Init /\ [][NextDup]_vars

\* the statuses a review may ask for
ReviewStatusInputs == {NoStatus, "needs_review", "draft", "cancelled", "closed"}

\* the work on the appraisal of employee 4, whose reviewer is manager 3
NextAppraisal ==
  \/ \E tok \in {3, 4}, sa \in {"", "s"}, gs \in GoalInputs :
        SubmitSelfAssessment(tok, 1, sa, gs)
  \/ \E tok \in {1, 3}, rv \in {"", "r"}, rt \in {0, 3, 6}, st \in ReviewStatusInputs,
        gs \in GoalInputs : SubmitReview(tok, 1, rv, rt, st, gs)
  \/ \E tok \in {1, 3}, id \in {1, 2}, st \in {NoStatus, "completed", "cancelled", "in_progress"},
        rv \in {NoText, "", "r"} :
        UpdateAppraisal(tok, id, Body(st, rv, NoText, NoGoals, NoDate))

SpecAppraisal == Init /\ [][NextAppraisal]_vars

ProjectTargets == {1, MaxProjects + 1}

\* body.team of createProject: none, manager 3 as a developer, and employee
\* 4 beside manager 3
ManagerTeamBodies(now) ==
  {<<>>,
   <<TeamEntry(3, "developer", 100, now)>>,
   <<TeamEntry(3, "developer", 100, now), TeamEntry(4, "tester", 50, now)>>}

\* a project of manager 3 or of employee 4: who may remove whom from its
\* team, and who may hand it to whom
NextManager ==
  \/ \E m \in {3, 4}, team \in ManagerTeamBodies(clock) : CreateProject(1, m, team)
  \/ \E tok \in {1, 2, 3}, m \in {3, 4, 5, MissingId} : AssignManager(tok, 1, m)
  \/ \E id \in ProjectTargets : AssignManager(1, id, None)
  \/ \E u \in {3, 4} : AddTeamMember(1, 1, u, NoStatus, NoAllocation)
  \/ \E tok \in {1, 2, 3}, u \in {3, 4} : RemoveTeamMember(tok, 1, u)
  \/ \E u \in {3, 4} : RemoveTeamMember(1, MaxProjects + 1, u)

SpecManager == Init /\ [][NextManager]_vars

\* body.team of createProject: none, employee 4 once, employee 4 twice, and
\* an allocation of 0
TeamBodies(now) ==
  {<<>>,
   <<TeamEntry(4, "developer", 100, now)>>,
   <<TeamEntry(4, "developer", 100, now), TeamEntry(4, "tester", 50, now)>>,
   <<TeamEntry(4, "developer", 0, now)>>}

\* role and allocation of req.body in addTeamMember: both absent, a tester at
\* 50%, the role manager, and the allocations 0 and 101
MemberInputs ==
  {<<NoStatus, NoAllocation>>, <<"tester", 50>>, <<"manager", NoAllocation>>,
   <<NoStatus, 0>>, <<NoStatus, 101>>}

\* the team of a project of manager 3: employee 4 and the onboarding
\* employee 5 are added, 4 is updated, removed and made the manager; a
\* second project has no team
NextTeam ==
  \/ \E team \in (IF projects = <<>> THEN TeamBodies(clock) ELSE {<<>>}) :
        CreateProject(1, 3, team)
  \/ \E u \in {4, 5}, in \in MemberInputs : AddTeamMember(1, 1, u, in[1], in[2])
  \/ \E id \in ProjectTargets : AddTeamMember(3, id, None, NoStatus, NoAllocation)
  \/ \E al \in {0, 50} : UpdateTeamMember(1, 1, 4, "tester", al)
  \/ RemoveTeamMember(1, 1, 4)
  \/ AssignManager(1, 1, 4)

SpecTeam == Init /\ [][NextTeam]_vars

\* employee 4 joins the team of a project of manager 3, leaves it and joins
\* it again at a later time
NextRejoin ==
  \/ \E team \in {<<>>, <<TeamEntry(4, "developer", 100, clock)>>} :
        projects = <<>> /\ CreateProject(1, 3, team)
  \/ \E tok \in {1, 3}, in \in MemberInputs : AddTeamMember(tok, 1, 4, in[1], in[2])
  \/ \E tok \in {1, 3} : RemoveTeamMember(tok, 1, 4)
  \/ Tick

SpecRejoin == Init /\ [][NextRejoin]_vars

\* every token through protect, the save of the last login accepted or not
NextLastSeen ==
  \/ \E tok \in Tokens, saved \in BOOLEAN : Protect(tok, saved)
  \/ Tick

SpecLastSeen == InitAuth /\ [][NextLastSeen]_vars

\* the sequences over S of length at most n
SeqUpTo(S, n) == UNION {[1..k -> S] : k \in 0..n}

\* goals the schema accepts: rating null (0) or 1..5, weightage 0..100
GoalValues == [rating : {0, 1, 5}, weightage : {0, 10, 100}]

\* KPIs: actual absent (0) or given, target positive
KpiValues == [actual : {0, 1, 3}, target : {1, 2}]

\* an appraisal with any manual rating, goals and KPIs, not yet rated
InitRating ==
  /\ users = InitUsers
  /\ appraisals = <<NewAppraisal(4, 3, 2)>>
  /\ warnings = <<>>
  /\ projects = <<>>
  /\ documents = <<>>
  /\ pending = <<>>
  /\ data \in [kind : {"appraisal"}, computed : {FALSE}, result : {NoRating},
               doc : [rating : {0, 3}, goals : SeqUpTo(GoalValues, MaxGoals),
                      kpis : SeqUpTo(KpiValues, MaxKpis)]]
  /\ clock = 1
  /\ resp = NoResp

NextRating == CalculateOverallRating

SpecRating == InitRating /\ [][NextRating]_vars

\* an appraisal with its due date; a completed one carries a rating
DueAppraisal(employee, status, dueDate) ==
  [dueDate |-> dueDate] @@
  [NewAppraisal(employee, ManagerOf(employee), 2) EXCEPT
     !.status = status, !.rating = IF status = "completed" THEN 3 ELSE 0]

DueAppraisals ==
  {DueAppraisal(e, st, d) : e \in {4, 5}, st \in {"draft", "completed"}, d \in {1, MaxDate}}

\* any appraisals of the two employees, one a report of manager 3, one not
InitStats ==
  /\ users = InitUsers
  /\ appraisals \in SeqUpTo(DueAppraisals, MaxAppraisals)
  /\ warnings = <<>>
  /\ projects = <<>>
  /\ documents = <<>>
  /\ pending = <<>>
  /\ data = NoData
  /\ clock = 1
  /\ resp = NoResp

NextStats ==
  \/ \E tok \in {1, 3, 4} : GetAppraisalStats(tok)
  \/ Tick

SpecStats == InitStats /\ [][NextStats]_vars

\* manager 3 uploads and manages a document; employees 4 (same department)
\* and 5 are the ones it is shared with
DocumentTargets == {1, MaxDocuments + 1}

UpdateBodies ==
  {UpdateBody("d", NoText, NoText), UpdateBody(NoText, "bogus", NoText)}

NextDocument ==
  \/ UploadDocumentFile(3, NoText, "false")
  \/ \E tok \in {3, 4, 5}, id \in DocumentTargets : GetDocument(tok, id)
  \/ \E tok \in {3, 4, 5}, id \in DocumentTargets : DownloadDocument(tok, id)
  \/ \E tok \in {3, 5}, id \in DocumentTargets, body \in UpdateBodies :
        UpdateDocument(tok, id, body)
  \/ \E tok \in {3, 4}, userIds \in {<<>>, <<5>>, <<5, 5>>}, p \in {"view", "edit", "own"} :
        ShareDocument(tok, 1, userIds, p)
  \/ DeleteDocument(3, 1)

SpecDocument == Init /\ [][NextDocument]_vars

\* the document manager 3 uploaded, as uploadDocument stored it
InitInFlight ==
  /\ users = InitUsers
  /\ appraisals = <<NewAppraisal(4, 3, 2)>>
  /\ warnings = <<>>
  /\ projects = <<>>
  /\ documents = uploadDocumentFile(<<>>, 3, NoText, "false").store
  /\ pending = <<>>
  /\ data = NoData
  /\ clock = 1
  /\ resp = NoResp

NextInFlight ==
  \/ \E tok \in {1, 3} : ReadForUpdate(tok, 1, UpdateBody("d", NoText, NoText))
  \/ ReadForShare(3, 1, <<5>>, "view")
  \/ ReadForDelete(3, 1)
  \/ \E k \in 1..MaxPending : CompleteSave(k)

SpecInFlight == InitInFlight /\ [][NextInFlight]_vars

\* requests that add the admin 2 or employee 4 to the team of a project of
\* manager 3 run side by side; 4 is also removed, so that a request may find
\* the closed entry of 4
NextJoin ==
  \/ projects = <<>> /\ CreateProject(1, 3, <<>>)
  \/ \E tok \in {1, 3}, u \in {2, 4} : ReadForAddMember(tok, 1, u, NoStatus, NoAllocation)
  \/ \E k \in 1..MaxPending : CompleteAdd(k)
  \/ RemoveTeamMember(1, 1, 4)

SpecJoin == Init /\ [][NextJoin]_vars

\* a warning and a document are created, read, changed and soft-deleted
NextDelete ==
  \/ warnings = <<>> /\ CreateWarning(1, 1, NoDate, MaxDate)
  \/ \E tok \in {1, 3}, id \in {1, MaxWarnings + 1} : DeleteWarning(tok, id)
  \/ \E tok \in {1, 3} : GetWarning(tok, 1)
  \/ ResolveWarning(1, 1, "n")
  \/ WithdrawWarning(1, 1, "r")
  \/ UploadDocumentFile(3, NoText, "false")
  \/ DeleteDocument(3, 1)
  \/ \E tok \in {3, 4} : GetDocument(tok, 1)
  \/ DownloadDocument(3, 1)
  \/ UpdateDocument(3, 1, UpdateBody("d", NoText, NoText))

SpecDelete == Init /\ [][NextDelete]_vars

\* ------------------------------------------------------------ properties
Elevated(u) == users[u].role \in {"admin", "hr"}

\* C1: a principal whose role is admin is allowed every operation: no request
\* of an admin is answered unauthorized (401) or forbidden (403).
C1_AdminAllowedEverything ==
  (resp.caller \in DOMAIN users /\ users[resp.caller].role = "admin")
     => resp.code \notin {401, 403}

\* the admin asked for the team members and was refused
C1_AdminRefused ==
  /\ resp.op = "getTeamMembers"
  /\ resp.caller = 1
  /\ resp.code = 403

\* C2: getEmployee answers principal P with the profile of employee E only if
\* P is E, or P is admin or hr, or P is a manager and E's manager is P.
C2_ProfileOnlyToEntitled ==
  (resp.op = "getEmployee" /\ resp.code = 200)
     => \/ resp.caller = resp.target
        \/ Elevated(resp.caller)
        \/ /\ users[resp.caller].role = "manager"
           /\ users[resp.target].manager = resp.caller

\* an employee read the profile of another employee
C2_StrangerServed ==
  /\ resp.op = "getEmployee"
  /\ resp.code = 200
  /\ users[resp.caller].role = "employee"
  /\ resp.caller # resp.target

\* C3: a request of a principal whose stored status is suspended or terminated
\* is answered 401 and changes no resource and no field of the principal, the
\* last login included; a request whose token names no stored principal is
\* answered 404 and changes nothing.
C3_InactivePrincipalRejected ==
  [][clock' = clock =>
       /\ (resp'.caller \in DOMAIN users
             /\ users[resp'.caller].status \in {"suspended", "terminated"})
            => (resp'.code = 401 /\ UNCHANGED <<users, appraisals, warnings>>)
       /\ resp'.caller = MissingId
            => (resp'.code = 404 /\ UNCHANGED <<users, appraisals, warnings>>)]_vars

\* the terminated account 4 was refused, and its last login is older than the clock
C3_TerminatedRefused ==
  /\ resp.caller = 4
  /\ resp.code = 401
  /\ users[4].status = "terminated"
  /\ users[4].lastLogin < clock

\* C4: resolve by a manager M succeeds, with status resolved and resolvedAt
\* stamped, when the warning's employee is managed by M, and fails leaving the
\* warning unchanged when the employee is not managed by M.
C4_ManagerResolvesOwnTeam ==
  [][(/\ resp'.op = "resolveWarning"
      /\ resp'.caller \in DOMAIN users
      /\ users[resp'.caller].role = "manager"
      /\ users[resp'.caller].status = "active"
      /\ resp'.target \in DOMAIN warnings)
     => IF EmployeeManagerOf(warnings[resp'.target].employee) = resp'.caller
        THEN /\ resp'.code = 200
             /\ warnings'[resp'.target].status = "resolved"
             /\ warnings'[resp'.target].resolvedAt # NoDate
        ELSE /\ resp'.code # 200
             /\ warnings' = warnings]_vars

\* manager 3 was refused on a warning about employee 1, whom 3 manages
C4_OwnTeamRefused ==
  /\ resp.op = "resolveWarning"
  /\ resp.caller = 3
  /\ resp.code # 200
  /\ resp.target \in DOMAIN warnings
  /\ EmployeeManagerOf(warnings[resp.target].employee) = 3
  /\ warnings[resp.target].status = "active"

\* C5: resolve succeeds on any existing warning for any admin, hr or manager,
\* a manager who did not create the warning included.
C5_AnyRouteRoleResolves ==
  (/\ resp.op = "resolveWarning"
   /\ resp.caller \in DOMAIN users
   /\ users[resp.caller].role \in {"admin", "hr", "manager"}
   /\ resp.target \in DOMAIN warnings)
  => (resp.code = 200 /\ warnings[resp.target].status = "resolved")

\* manager 3 was refused on a warning the admin created
C5_OtherManagerRefused ==
  /\ resp.op = "resolveWarning"
  /\ resp.caller = 3
  /\ resp.target \in DOMAIN warnings
  /\ warnings[resp.target].createdBy = 1
  /\ resp.code # 200

\* C6: once the status of an employee is terminated, no operation changes it.
C6_TerminatedIsFinal ==
  [][\A u \in DOMAIN users :
       users[u].status = "terminated" => users'[u].status = "terminated"]_vars

\* employee 5 is active although its history records a termination
C6_Reinstated ==
  /\ users[5].status = "active"
  /\ \E i \in DOMAIN users[5].statusHistory :
        users[5].statusHistory[i].status = "terminated"

\* C7: verifyDocument leaves an onboarding employee active exactly when every
\* document of the employee is verified after the call, and onboarding when
\* one is pending or rejected; an employee in any other status keeps it.
C7_AutoActivation ==
  [][(resp'.op = "verifyDocument" /\ resp'.code = 200)
     => LET e == DocOwner(users, resp'.target)
            docs == users'[e].documents
            every == \A i \in DOMAIN docs : docs[i].status = "verified"
        IN users'[e].status =
             IF users[e].status = "onboarding" /\ every THEN "active"
             ELSE users[e].status]_vars

\* the last of two documents was verified and the employee is active, with no
\* status change requested before
C7_Activated ==
  /\ resp.op = "verifyDocument"
  /\ resp.code = 200
  /\ Len(users[5].documents) = MaxDocs
  /\ \A i \in DOMAIN users[5].documents : users[5].documents[i].status = "verified"
  /\ users[5].documents[resp.target].verifiedAt # NoDate
  /\ users[5].status = "active"

\* C8: every change of an employee's status appends exactly one entry to the
\* status history of the employee, and no entry is modified or removed.
C8_EveryChangeRecorded ==
  [][\A u \in DOMAIN users :
       LET old == users[u].statusHistory
           new == users'[u].statusHistory
       IN /\ Len(new) >= Len(old)
          /\ SubSeq(new, 1, Len(old)) = old
          /\ users'[u].status # users[u].status => Len(new) = Len(old) + 1]_vars

\* employee 5 left onboarding and the history is empty
C8_SilentChange ==
  /\ users[5].status # "onboarding"
  /\ users[5].statusHistory = <<>>

\* C9: every stored warning has validUntil after dateIssued; createWarning
\* with validUntil at or before dateIssued is answered with a validation
\* error (400) and stores nothing; no updateWarning leaves a stored warning
\* with validUntil at or before dateIssued.
C9_ValidUntilAfterDateIssued ==
  [][/\ \A i \in DOMAIN warnings' : warnings'[i].validUntil > warnings'[i].dateIssued
     /\ (resp'.op = "createWarning" /\ resp'.caller = 1)
          => \A di \in Dates \cup {NoDate}, vu \in Dates :
               (/\ CreateWarning(1, 1, di, vu)
                /\ vu <= (IF di = NoDate THEN clock ELSE di))
               => (resp'.code = 400 /\ warnings' = warnings)]_vars

\* an update of the dates of a stored warning was refused by the validation
C9_UpdateRefused ==
  /\ resp.op = "updateWarning"
  /\ resp.code = 400
  /\ resp.target \in DOMAIN warnings

\* C10: escalate on an escalated warning fails with the invalid-transition
\* error (400) and leaves the warning as it is; escalate on a warning not yet
\* escalated sets escalated and leaves the status.
C10_EscalateOnce ==
  [][(/\ resp'.op = "escalateWarning"
      /\ resp'.caller \in DOMAIN users
      /\ users[resp'.caller].role \in WarningRouteRoles
      /\ resp'.target \in DOMAIN warnings)
     => IF warnings[resp'.target].escalated
        THEN /\ resp'.code = 400
             /\ warnings' = warnings
        ELSE /\ warnings'[resp'.target].escalated
             /\ warnings'[resp'.target].status = warnings[resp'.target].status]_vars

\* an escalated warning, and the answer to the escalation was 500
C10_ServerError ==
  /\ resp.op = "escalateWarning"
  /\ resp.target \in DOMAIN warnings
  /\ warnings[resp.target].escalated
  /\ resp.code = 500

\* C11: resolved and withdrawn are terminal: once the status of a warning is
\* resolved or withdrawn, no resolve, withdraw or updateWarning changes its
\* status or its resolvedAt.
C11_TerminalStatuses ==
  [][\A i \in DOMAIN warnings :
       warnings[i].status \in {"resolved", "withdrawn"}
         => /\ warnings'[i].status = warnings[i].status
            /\ warnings'[i].resolvedAt = warnings[i].resolvedAt]_vars

\* a warning that was resolved (resolvedAt is stamped) has been withdrawn
C11_ResolvedThenWithdrawn ==
  /\ resp.op = "withdrawWarning"
  /\ resp.code = 200
  /\ resp.target \in DOMAIN warnings
  /\ warnings[resp.target].status = "withdrawn"
  /\ warnings[resp.target].resolutionNotes = "n"

\* C12: a successful withdraw leaves the status withdrawn and resolvedAt
\* stamped, the caller is admin or hr and the reason is not empty; a withdraw
\* by another role or without a reason fails and leaves the warning unchanged.
C12_WithdrawStampsAndNeedsReason ==
  [][resp'.op = "withdrawWarning" =>
       /\ resp'.code = 200
            => /\ Elevated(resp'.caller)
               /\ warnings'[resp'.target].status = "withdrawn"
               /\ warnings'[resp'.target].resolvedAt # NoDate
       /\ \A tok \in {1, 2, 3, 4}, id \in WarningTargets, rs \in Reasons :
            (WithdrawWarning(tok, id, rs) /\ (rs = "" \/ ~Elevated(tok)))
              => (resp'.code # 200 /\ warnings' = warnings)]_vars

\* an active warning was withdrawn and carries no resolvedAt
C12_WithdrawnUnstamped ==
  /\ resp.op = "withdrawWarning"
  /\ resp.code = 200
  /\ warnings[resp.target].status = "withdrawn"
  /\ warnings[resp.target].resolvedAt = NoDate

C14_ReviewOnlyFromOpenStatus ==
  [][resp'.op = "submitReview" =>
       LET t == resp'.target
       IN /\ resp'.code = 200
               => /\ t \in DOMAIN appraisals
                  /\ appraisals[t].reviewer = resp'.caller
                  /\ appraisals[t].status \in {"in_progress", "needs_review"}
          /\ (t \in DOMAIN appraisals
                /\ appraisals[t].status \in {"draft", "completed", "cancelled"})
               => /\ resp'.code # 200
                  /\ appraisals' = appraisals
                  /\ (\E st \in ReviewStatusInputs, gs \in GoalInputs :
                         SubmitReview(appraisals[t].reviewer, t, "r", 3, st, gs))
                       => resp'.code = 400]_vars

\* the reviewer's review of the draft was refused and nothing was written
C14_DraftRefused ==
  /\ resp.op = "submitReview"
  /\ resp.caller = 3
  /\ resp.code = 400
  /\ appraisals[1].status = "draft"
  /\ appraisals[1].review = ""
  /\ appraisals[1].reviewDate = NoDate

\* C15: an appraisal whose status is completed has a non-empty selfAssessment,
\* a non-empty review and at least one goal.
C15_CompletedIsComplete ==
  \A i \in DOMAIN appraisals :
    appraisals[i].status = "completed"
      => /\ appraisals[i].selfAssessment # ""
         /\ appraisals[i].review # ""
         /\ Len(appraisals[i].goals) >= 1

\* a review completed an appraisal that has no goal
C15_CompletedWithoutGoal ==
  /\ resp.op = "submitReview"
  /\ resp.code = 200
  /\ appraisals[1].status = "completed"
  /\ appraisals[1].goals = <<>>

\* C16: after a successful submitReview the status of the appraisal is
\* completed or needs_review, never draft, in_progress or cancelled.
C16_ReviewEndsCompletedOrNeedsReview ==
  (resp.op = "submitReview" /\ resp.code = 200)
    => appraisals[resp.target].status \in {"completed", "needs_review"}

\* a review asked for status cancelled and was accepted
C16_ReviewCancelled ==
  /\ resp.op = "submitReview"
  /\ resp.code = 200
  /\ appraisals[1].status = "cancelled"
  /\ appraisals[1].review = "r"
  /\ appraisals[1].reviewDate # NoDate

ActiveEntries(doc, u) ==
  Cardinality({i \in DOMAIN doc.team : doc.team[i].user = u /\ doc.team[i].isActive})

\* C18: assignManager(newManager) by the admin or the current manager, with
\* newManager active, succeeds and ends with project.manager = newManager,
\* no active team entry of the previous manager, exactly one active entry of
\* newManager (at 100% when it was added), and updatedBy = caller;
\* assignManager to a missing or non-active user fails and changes nothing.
C18_AssignManager ==
  [][\A tok \in {1, 2, 3}, id \in DOMAIN projects, m \in {3, 4, 5, MissingId} :
       AssignManager(tok, id, m)
         => /\ (/\ users[tok].role = "admin" \/ (users[tok].role = "manager" /\ projects[id].manager = tok)
                /\ findActiveUser(users, m)
                /\ m # projects[id].manager)
                 => /\ resp'.code = 200
                    /\ projects'[id].manager = m
                    /\ ActiveEntries(projects'[id], projects[id].manager) = 0
                    /\ ActiveEntries(projects'[id], m) = 1
                    /\ ~isTeamMember(projects[id], m)
                         => \A i \in DOMAIN projects'[id].team :
                              projects'[id].team[i].user = m => projects'[id].team[i].allocation = 100
                    /\ projects'[id].updatedBy = tok
            /\ ~findActiveUser(users, m)
                 => (resp'.code # 200 /\ projects' = projects)]_vars

\* the request was refused with 400, yet the project has the new manager 4,
\* who has no team entry, and the entry of the old manager 3 is closed
C18_HalfAssigned ==
  /\ resp.op = "assignManager"
  /\ resp.code = 400
  /\ resp.target \in DOMAIN projects
  /\ projects[resp.target].manager = 4
  /\ ActiveEntries(projects[resp.target], 4) = 0
  /\ \E i \in DOMAIN projects[resp.target].team :
        /\ projects[resp.target].team[i].user = 3
        /\ ~projects[resp.target].team[i].isActive
        /\ projects[resp.target].team[i].endDate # NoDate

\* the one case in which assignManager succeeds: the new manager was an
\* active member of the team before the request
C18_SuccessOnlyForMembers ==
  [][\A tok \in {1, 2, 3}, id \in DOMAIN projects, m \in {3, 4, 5, MissingId} :
       (AssignManager(tok, id, m) /\ resp'.code = 200)
         => /\ isTeamMember(projects[id], m)
            /\ projects'[id].manager = m
            /\ ActiveEntries(projects'[id], projects[id].manager) = 0
            /\ ActiveEntries(projects'[id], m) = 1
            /\ projects'[id].updatedBy = tok]_vars

\* every user has at most one active entry in the team of every project,
\* and every allocation lies in (0, 100]
TeamInvariant(ps) ==
  \A id \in DOMAIN ps :
    /\ \A u \in UserIds : ActiveEntries(ps[id], u) <= 1
    /\ \A i \in DOMAIN ps[id].team :
         ps[id].team[i].allocation > 0 /\ ps[id].team[i].allocation <= 100

\* C19: after any sequence of createProject, addTeamMember, updateTeamMember,
\* removeTeamMember and assignManager every user has at most one active team
\* entry per project and every allocation lies in (0, 100]; an addTeamMember
\* for a user who is an active member, or with an allocation out of that
\* range, fails and leaves the team unchanged.
C19_OneActiveEntryPerUser ==
  [][/\ TeamInvariant(projects')
     /\ \A u \in {4, 5}, in \in MemberInputs :
          (/\ AddTeamMember(1, 1, u, in[1], in[2])
           /\ 1 \in DOMAIN projects
           /\ \/ isTeamMember(projects[1], u)
              \/ DefaultAllocation(in[2]) <= 0
              \/ DefaultAllocation(in[2]) > 100)
            => (resp'.code # 200 /\ projects' = projects)]_vars

\* employee 4 has two active entries in the team of a project
C19_TwiceActive ==
  \E id \in DOMAIN projects : ActiveEntries(projects[id], 4) = 2

\* the requests that change a stored project keep what C19 states; only
\* createProject stores a team that breaks it
C19_TeamRequestsKeepIt ==
  [][(resp'.op # "createProject" /\ TeamInvariant(projects))
       => TeamInvariant(projects')]_vars

\* the entries of user u in a team
EntriesOf(doc, u) == {i \in DOMAIN doc.team : doc.team[i].user = u}

\* C20: removeTeamMember(u) followed by addTeamMember(u, role, allocation)
\* reactivates the entry of u in place: the team has as many entries as
\* before, u has exactly one entry, and that entry is active and carries
\* the new role, the new allocation and a new start date.
C20_ReactivatedInPlace ==
  [][\A tok \in {1, 3}, in \in MemberInputs :
       (/\ AddTeamMember(tok, 1, 4, in[1], in[2])
        /\ resp'.code = 200
        /\ Cardinality(EntriesOf(projects[1], 4)) = 1
        /\ ~isTeamMember(projects[1], 4))
         => /\ Len(projects'[1].team) = Len(projects[1].team)
            /\ EntriesOf(projects'[1], 4) = EntriesOf(projects[1], 4)
            /\ \A i \in EntriesOf(projects[1], 4) :
                 /\ projects'[1].team[i].isActive
                 /\ projects'[1].team[i].role = DefaultRole(in[1])
                 /\ projects'[1].team[i].allocation = DefaultAllocation(in[2])
                 /\ projects'[1].team[i].startDate = clock]_vars

\* employee 4 was removed at an earlier time and added again as a tester at
\* 50%: the only entry of the team, active, started after it had ended
C20_Reactivated ==
  /\ resp.op = "addTeamMember"
  /\ resp.code = 200
  /\ resp.target \in DOMAIN projects
  /\ Len(projects[resp.target].team) = 1
  /\ projects[resp.target].team[1].user = 4
  /\ projects[resp.target].team[1].isActive
  /\ projects[resp.target].team[1].role = "tester"
  /\ projects[resp.target].team[1].allocation = 50
  /\ projects[resp.target].team[1].endDate # NoDate
  /\ projects[resp.target].team[1].startDate > projects[resp.target].team[1].endDate

\* C30: createProject is all or nothing: after a createProject that reports
\* success the manager of the new project has exactly one active team entry,
\* at 100%, and after one that reports an error no project was added.
C30_CreateAllOrNothing ==
  [][resp'.op = "createProject" =>
       /\ resp'.code = 201 =>
            /\ Len(projects') = Len(projects) + 1
            /\ LET doc == projects'[Len(projects')]
               IN /\ ActiveEntries(doc, doc.manager) = 1
                  /\ \A i \in DOMAIN doc.team :
                       (doc.team[i].user = doc.manager /\ doc.team[i].isActive)
                          => doc.team[i].allocation = 100
       /\ resp'.code # 201 => projects' = projects]_vars

\* createProject was answered 400 and the project is stored, its manager
\* without a team entry
C30_StoredAfterError ==
  /\ resp.op = "createProject"
  /\ resp.code = 400
  /\ Len(projects) = 1
  /\ ActiveEntries(projects[1], projects[1].manager) = 0

\* C25: when protect resolves the token of a stored principal who is neither
\* suspended nor terminated, the request is passed on to the next handler
\* whether or not the last login could be recorded.
C25_LastSeenBestEffort ==
  [][\A tok \in UserIds, saved \in BOOLEAN :
       (Protect(tok, saved) /\ users[tok].status \notin {"suspended", "terminated"})
         => resp'.code = 0]_vars

\* the active admin was answered 401 and the last login is older than the clock
C25_ActiveRefused ==
  /\ resp.op = "protect"
  /\ resp.caller = 1
  /\ resp.code = 401
  /\ users[1].status = "active"
  /\ users[1].lastLogin < clock

\* C27: calculateOverallRating returns the manual rating when one is set;
\* otherwise null when no goal has a rating and a weightage and no KPI has an
\* actual and a target, and in every other case a value within [1, 5], the
\* weighted sum of the goal ratings and of the KPI ratings.
C27_RatingWithinRange ==
  data.kind = "appraisal" /\ data.computed =>
    IF data.doc.rating # 0 THEN data.result = 100 * data.doc.rating
    ELSE IF RatedGoals(data.doc.goals) = {} /\ RatedKpis(data.doc.kpis) = {}
         THEN data.result = NoRating
    ELSE /\ data.result = toFixed2(WeightedSum(data.doc))
         /\ data.result >= 100
         /\ data.result <= 500

\* one goal rated 1 with weightage 10 and no KPI: the result is 0.10
C27_BelowOne ==
  /\ data.kind = "appraisal" /\ data.computed
  /\ data.doc.rating = 0
  /\ data.doc.goals = <<[rating |-> 1, weightage |-> 10]>>
  /\ data.doc.kpis = <<>>
  /\ data.result = 10

\* the store without the appraisals of employees outside the caller's team
OnlyReports(as, us, uid) == SelectSeq(as, LAMBDA a : a.employee \in teamMemberIds(us, uid))

\* C26: for a manager every figure of getAppraisalStats (by status, by
\* department, overdue, upcoming) is computed only from the appraisals of the
\* manager's direct reports: the store and the store without the appraisals
\* of other employees give that manager identical stats.
C26_StatsOnlyFromReports ==
  [][\A tok \in UserIds :
       (GetAppraisalStats(tok) /\ RoleOf(tok) = "manager" /\ resp'.code = 200) =>
         data'.stats = getAppraisalStats(OnlyReports(appraisals, users', tok), users', tok, clock)]_vars

\* manager 3, whose only report is 4, is given a department row for the
\* appraisal of employee 5
C26_ForeignDepartment ==
  /\ resp.op = "getAppraisalStats" /\ resp.caller = 3 /\ resp.code = 200
  /\ data.kind = "stats"
  /\ \A i \in DOMAIN appraisals : appraisals[i].employee = 5
  /\ appraisals # <<>>
  /\ data.stats.byStatus = {}
  /\ data.stats.byDepartment # {}

\* the outcome of the step is that of a mutation of document id
Mutated(op, id) == resp'.op = op /\ resp'.target = id /\ id \in DOMAIN documents

\* C21: a document's version is 1 when it is created; every successful
\* mutation (updateDocument, a shareDocument that adds a share, soft delete)
\* raises it by exactly 1; a mutation that fails validation or authorization
\* and a shareDocument that adds nothing leave it unchanged.
C21_VersionCountsMutations ==
  [][/\ (resp'.op = "uploadDocument" /\ resp'.code = 201) =>
          documents'[Len(documents')].version = 1
     /\ \A id \in DOMAIN documents :
          /\ (resp'.code = 200 /\ (Mutated("updateDocument", id) \/ Mutated("deleteDocument", id))) =>
                documents'[id].version = documents[id].version + 1
          /\ (resp'.code = 200 /\ Mutated("shareDocument", id)) =>
                documents'[id].version =
                  IF documents'[id].sharedWith # documents[id].sharedWith
                  THEN documents[id].version + 1 ELSE documents[id].version
          /\ resp'.code \notin {200, 201} => documents'[id] = documents[id]]_vars

\* the document just created carries version 2
C21_CreatedAtTwo ==
  /\ resp.op = "uploadDocument" /\ resp.code = 201
  /\ Len(documents) = 1
  /\ documents[1].version = 2

\* the entries of sharedWith that name user u
SharesOf(doc, u) == {i \in DOMAIN doc.sharedWith : doc.sharedWith[i].user = u}

\* C22: after any sequence of shareDocument calls, for every userIds list
\* (a list naming the same user twice included), sharedWith holds at most
\* one entry per user, and sharing with a user already listed leaves the
\* permission of that entry unchanged.
C22_OneSharePerUser ==
  [][\A id \in DOMAIN documents' :
       /\ \A u \in UserIds : Cardinality(SharesOf(documents'[id], u)) <= 1
       /\ id \in DOMAIN documents =>
            \A i \in DOMAIN documents[id].sharedWith :
              /\ i \in DOMAIN documents'[id].sharedWith
              /\ documents'[id].sharedWith[i] = documents[id].sharedWith[i]]_vars

\* one call with userIds = [5, 5] has left two entries for user 5
C22_SharedTwice ==
  /\ resp.op = "shareDocument" /\ resp.code = 200
  /\ Len(documents) = 1
  /\ Cardinality(SharesOf(documents[1], 5)) = 2

\* a principal who holds a share of the document and is neither its uploader
\* nor admin or hr
Sharee(doc, u) ==
  /\ SharesOf(doc, u) # {}
  /\ doc.uploadedBy # u
  /\ RoleOf(u) \notin {"admin", "hr"}

\* C23: a principal who is neither admin/hr nor the uploader and is listed
\* in sharedWith at level p is allowed an action requiring level L whenever
\* p >= L (view < comment < edit) and not through the share otherwise: any
\* share permits get and download, an edit share permits updateDocument, a
\* view or comment share does not.
C23_ShareLevelsHonoured ==
  [][\A id \in DOMAIN documents, u \in UserIds :
       (Sharee(documents[id], u) /\ resp'.caller = u /\ resp'.target = id) =>
         /\ resp'.op \in {"getDocument", "downloadDocument"} => resp'.code # 403
         /\ resp'.op = "updateDocument" =>
              (resp'.code # 403 <=> hasPermission(documents[id], u, "edit"))]_vars

\* employee 5 holds an edit share and is refused the update
C23_EditShareRefused ==
  /\ resp.op = "updateDocument" /\ resp.caller = 5 /\ resp.target = 1 /\ resp.code = 403
  /\ Len(documents) = 1
  /\ Sharee(documents[1], 5)
  /\ hasPermission(documents[1], 5, "edit")

\* C29: when two successful mutations of the same document interleave, each
\* reading the document before the other saves, the field changes of both
\* are kept and version ends exactly 2 higher: every save that changes the
\* document raises the stored version by one and leaves the fields it did
\* not modify as the other request stored them.
C29_InterleavedMutationsCount ==
  [][\A k \in DOMAIN pending :
       LET p == pending[k]
       IN (CompleteSave(k) /\ (DOMAIN p.write.set # {} \/ p.write.push # <<>>)) =>
            /\ documents'[p.id].version = documents[p.id].version + 1
            /\ documents'[p.id].sharedWith = documents[p.id].sharedWith \o p.write.push
            /\ \A f \in DOMAIN documents[p.id] \ {"version", "sharedWith"} :
                 documents'[p.id][f] = IF f \in DOMAIN p.write.set THEN p.write.set[f]
                                      ELSE documents[p.id][f]]_vars

\* an update and a soft delete of the document created at version 2 have
\* both been saved, and the version is 3
C29_VersionProducedTwice ==
  /\ pending = <<>>
  /\ documents[1].description = "d"
  /\ documents[1].isDeleted
  /\ documents[1].sharedWith = <<>>
  /\ ~documents[1].isPublic
  /\ documents[1].version = 3

\* C28: two concurrent addTeamMember calls for the same user and project
\* never end with two active entries for that user; at most one of them
\* succeeds: a call that succeeds found no active entry of the user in the
\* store and leaves exactly one.
C28_ConcurrentAddOnce ==
  [][\A k \in DOMAIN pending :
       LET p == pending[k]
       IN (CompleteAdd(k) /\ resp'.code = 200) =>
            /\ ActiveEntries(projects[p.id], p.write.entry.user) = 0
            /\ ActiveEntries(projects'[p.id], p.write.entry.user) = 1]_vars

\* both calls for employee 4 were answered 200 and the team lists 4 twice
C28_AddedTwice ==
  /\ resp.op = "addTeamMember" /\ resp.code = 200
  /\ pending = <<>>
  /\ Len(projects) = 1
  /\ ActiveEntries(projects[1], 4) = 2

\* a soft-deleted record st[id] stays in the store with its flag and
\* timestamp, is not returned by a read and is not changed by a transition
StaysDeleted(st, next, id, reads, transitions) ==
  st[id].isDeleted =>
    /\ id \in DOMAIN next
    /\ next[id].isDeleted /\ next[id].deletedAt # NoDate
    /\ (resp'.op \in reads /\ resp'.target = id) => resp'.code # 200
    /\ (resp'.op \in transitions /\ resp'.target = id) => next[id] = st[id]

\* C24: after a resource is soft-deleted its record still exists with the
\* delete flag and timestamp set, no later read returns it, and no later
\* transition (for a warning: resolve, escalate, withdraw, update) is
\* applied to it.
C24_SoftDeletedIsInert ==
  [][/\ \A id \in DOMAIN warnings :
          StaysDeleted(warnings, warnings', id, {"getWarning"},
                       {"updateWarning", "resolveWarning", "escalateWarning", "withdrawWarning"})
     /\ \A id \in DOMAIN documents :
          StaysDeleted(documents, documents', id, {"getDocument", "downloadDocument"},
                       {"updateDocument", "shareDocument"})]_vars

\* the soft-deleted warning 1 is returned to the admin by getWarning
C24_DeletedWarningRead ==
  /\ resp.op = "getWarning" /\ resp.target = 1 /\ resp.code = 200
  /\ Len(warnings) = 1
  /\ warnings[1].isDeleted /\ warnings[1].deletedAt # NoDate

====
